---------------------------- MODULE Spec2Model ----------------------------
(***************************************************************************)
(* A model of the "buddy" travel-meetup client and its row store: the      *)
(* realtime chat synchronisation of MeetupChat / CommunityChat, the text   *)
(* and file send paths, the notification fan-out trigger, the activity     *)
(* RSVP card, the membership / join-request gate, the row-level access     *)
(* policies, the activity list of the chat screen and the profile gate of  *)
(* the protected routes.                                                   *)
(*                                                                         *)
(* Each subsystem has its own variables, initial predicate and next-state  *)
(* relation (SpecSync, SpecRekey, SpecReconnect, SpecSend, SpecResend,     *)
(* SpecUpload, SpecEcho, SpecJoin, SpecCapacity, SpecGate, SpecNotify,     *)
(* SpecInbox, SpecPin, SpecAccess, SpecFeed, SpecRoute, SpecRespond); a    *)
(* subsystem's specification leaves the other subsystems' variables        *)
(* parked at their initial values.                                         *)
(***************************************************************************)
EXTENDS Integers, Sequences, FiniteSets, TLC

VARIABLES
  \* ---- realtime chat synchronisation (MeetupChat.tsx / CommunityChat.tsx)
  chan,        \* which chat screen is mounted: "meetup" or "community"
  dbMsgs,      \* the channel's rows in the store, in created_at order
  nextId,      \* the id the store gives to the next inserted row
  messages,    \* React state `messages`: the local list
  loading,     \* React state `loading`
  loadToast,   \* the toast raised by fetchMessages, "none" when none
  fetchSt,     \* position of fetchMessages: none / requested / responded / done
  fetchData,   \* the response of the initial select: [ok, rows]
  sub,         \* the realtime channel: closed / joining / joined / lost
  events,      \* change events the server sent, not yet handled by the client
  reads,       \* point re-reads started by the handler, not yet resolved
  dupIds,      \* ids whose row-inserted event the transport delivered twice
  edits,       \* number of updates and deletes applied to the channel so far
  liveIds,     \* ids inserted after the screen had fetched and subscribed
  elsewhere,   \* rows of the message table that belong to a meetup the
               \* screen showed before its meetupId changed
  rekeys,      \* number of changes of the screen's meetupId so far
  drops,       \* number of times the realtime connection was lost so far
  \* ---- text send path (handleSendMessage)
  newMessage,  \* React state `newMessage`: the composed text
  sending,     \* React state `sending`
  sendPc,      \* position of handleSendMessage: idle / inserting
  pending,     \* the row handed to the insert that is in flight
  sendToast,   \* the last toast raised by handleSendMessage, "none" when none
  rows,        \* rows written to the message table by the send paths
  sendResult,  \* how the last handleSendMessage call went
  submitted,   \* the `newMessage` the last handleSendMessage call ran with
  \* ---- file upload path (handleFileUpload)
  upFile,      \* the File the last handleFileUpload call ran with
  uploading,   \* React state `uploading`
  upPc,        \* position of handleFileUpload: idle / storing / inserting
  upPath,      \* `fileName`: the storage path built by the call
  storage,     \* objects of bucket meetup-uploads
  upToast,     \* the last toast raised by handleFileUpload, "none" when none
  upResult,    \* how the last handleFileUpload call went
  upCalls,     \* number of handleFileUpload calls so far
  clock,       \* Date.now()
  \* ---- the row store: meetup, memberships, join requests, fan-out
  meetup,        \* the row of table meetups, NoMeetup before addMeetup
  dbMembers,     \* rows of meetup_members of the meetup: user ids, in order
  dbRequests,    \* rows of meetup_join_requests of the meetup
  dbActivities,  \* rows of meetup_activities of the meetup
  dbResponses,   \* rows of activity_responses
  notifications, \* rows of notifications
  \* ---- MeetupDetails page of each user (handleJoinMeetup)
  meetupView,    \* React state `meetup` of each user's page
  members,       \* React state `members` of each user's page
  isMember,      \* React state `isMember` of each user's page
  joinPc,        \* position of each user's handleJoinMeetup call
  existingRequest, \* `existingRequest` read by each user's call
  joinToast,     \* the toast raised by each user's last call, "none" when none
  atCapacity,    \* whether the store's member count had reached max_members
                 \* when each user's last call started
  joinWrote,     \* whether each user's last call changed a row of the store
  joinCalls,     \* number of handleJoinMeetup calls of each user so far
  \* ---- PendingRequests panel of the creator (handleRequest)
  requests,      \* React state `requests`: the pending requests as fetched
  processing,    \* the request whose handleRequest call is in flight
  requestToast,  \* the toast raised by the last handleRequest call
  \* ---- ActivityCard of each user (handleResponse)
  responses,     \* prop `responses` of each user's card
  updating,      \* React state `updating` of each user's card
  respPc,        \* the statement each user's handleResponse call is awaiting
  respToast,     \* the toast raised by each user's last handleResponse call
  caller,        \* auth.uid() of the last request sent to the store directly
  selected,      \* the table and the rows the last direct SELECT returned
  activities,    \* React state `activities` of the creator's MeetupChat
  actFetches,    \* fetchActivities calls of that screen that have not resolved
  delivered,     \* the store's activities as of the last change event delivered
  pathname,        \* location.pathname
  profile,         \* the signed-in user's profiles row: name, date_of_birth
  checkingProfile, \* React state `checkingProfile` of ProtectedRoute
  routePc,         \* position of ProtectedRoute's checkProfileCompletion
  currentStep,     \* React state `currentStep` of Onboarding
  second,          \* the insert of a handleSendMessage call made while one is in flight
  refused,         \* handleSendMessage calls that returned at the `sending` guard
  gone             \* ids whose row-deleted event the chat screen has handled

syncVars == <<dbMsgs, nextId, messages, loading, loadToast, fetchSt,
              fetchData, sub, events, reads, dupIds, edits, liveIds>>

sendVars == <<newMessage, sending, sendPc, pending, sendToast, rows,
              sendResult, submitted>>

uploadVars == <<upFile, uploading, upPc, upPath, storage, upToast, upResult,
                upCalls, clock>>

sendLocal == <<newMessage, sending, sendPc, pending, sendToast, sendResult,
               submitted>>

storeVars == <<meetup, dbMembers, dbRequests, dbActivities, dbResponses,
               notifications>>

pageVars == <<meetupView, members, isMember, joinPc, existingRequest,
              joinToast, atCapacity, joinWrote, joinCalls>>

panelVars == <<requests, processing, requestToast>>

cardVars == <<responses, updating, respPc, respToast>>

meetupVars == <<storeVars, pageVars, panelVars, cardVars>>

\* The chat screen's state that a store insert does not touch, the local
\* list aside.
screenVars == <<loading, loadToast, fetchSt, fetchData, sub, reads, dupIds,
                edits>>

keyVars == <<elsewhere, rekeys, drops>>
inboxVars == <<caller>>
readVars == <<selected>>
feedVars == <<activities, actFetches, delivered>>
routeVars == <<pathname, profile, checkingProfile, routePc, currentStep>>
resendVars == <<second, refused>>
goneVars == <<gone>>

vars == <<chan, syncVars, keyVars, sendVars, uploadVars, meetupVars, inboxVars, readVars, feedVars, routeVars, resendVars, goneVars>>

\* What each subsystem's actions leave alone.
notSync == <<chan, keyVars, sendVars, uploadVars, meetupVars, inboxVars, readVars, feedVars, routeVars, resendVars, goneVars>>
notSend == <<chan, syncVars, keyVars, uploadVars, meetupVars, inboxVars, readVars, feedVars, routeVars, resendVars, goneVars>>
notUpload == <<chan, syncVars, keyVars, sendLocal, meetupVars, inboxVars, readVars, feedVars, routeVars, resendVars, goneVars>>
notMeetup == <<chan, syncVars, keyVars, sendLocal, uploadVars, inboxVars, readVars, feedVars, routeVars, resendVars, goneVars>>
notInbox == <<chan, syncVars, keyVars, sendLocal, uploadVars, readVars, feedVars, routeVars, resendVars, goneVars>>
notAccess == <<chan, syncVars, keyVars, sendLocal, uploadVars, feedVars, routeVars, resendVars, goneVars>>
notFeed == <<chan, syncVars, keyVars, sendLocal, uploadVars, inboxVars, readVars,
             routeVars, resendVars, goneVars>>
notRoute == <<chan, syncVars, keyVars, sendVars, uploadVars, meetupVars, inboxVars,
              readVars, feedVars, resendVars, goneVars>>
notResend == <<chan, syncVars, keyVars, sendVars, uploadVars, meetupVars, inboxVars,
               readVars, feedVars, routeVars, goneVars>>
notHandler == <<chan, keyVars, sendVars, uploadVars, meetupVars, inboxVars, readVars,
                feedVars, routeVars, resendVars>>

-----------------------------------------------------------------------------
(* Bounds of the model *)

MaxMsgs == 2      \* rows ever inserted into the channel
MaxEdits == 1     \* updates and deletes ever applied to the channel's rows
MaxDup == 1       \* events the transport may deliver a second time
MaxRekeys == 1    \* changes of the screen's meetupId
MaxDrops == 1     \* losses of the realtime connection

-----------------------------------------------------------------------------
(* Helpers on sequences *)

Range(s) == {s[i] : i \in DOMAIN s}

RECURSIVE SeqFilter(_, _)
SeqFilter(s, keep) ==
  IF s = <<>> THEN <<>>
  ELSE IF Head(s) \in keep THEN <<Head(s)>> \o SeqFilter(Tail(s), keep)
       ELSE SeqFilter(Tail(s), keep)

RemoveAt(s, i) == SubSeq(s, 1, i - 1) \o SubSeq(s, i + 1, Len(s))

InsertAfter(s, i, x) == SubSeq(s, 1, i) \o <<x>> \o SubSeq(s, i + 1, Len(s))

Ids(s) == [i \in DOMAIN s |-> s[i].id]

Count(x, s) == Cardinality({i \in DOMAIN s : s[i].id = x})

Min(a, b) == IF a < b THEN a ELSE b

-----------------------------------------------------------------------------
(* Realtime chat synchronisation *)

Channels == {"meetup", "community"}

\* CommunityChat's initial select carries .limit(100); MeetupChat's has none.
CommunityFetchLimit == 100

\* fetchMessages' query: the channel's rows ordered by created_at ascending.
FetchQuery(c, db) ==
  IF c = "community" THEN SubSeq(db, 1, Min(Len(db), CommunityFetchLimit)) ELSE db

\* .eq('id', payload.new.id).maybeSingle(): the row, or null (here <<>>).
PointRead(db, x) == SeqFilter(db, {r \in Range(db) : r.id = x})

\* setMessages((prev) => [...prev, data])
MergeInsert(prev, data) == prev \o <<data>>

\* setMessages((prev) => prev.map(msg => msg.id === data.id ? data : msg))
MergeUpdate(prev, data) ==
  [i \in DOMAIN prev |-> IF prev[i].id = data.id THEN data ELSE prev[i]]

\* setMessages((prev) => prev.filter((msg) => msg.id !== payload.old.id))
MergeDelete(prev, x) == SeqFilter(prev, {r \in Range(prev) : r.id # x})

\* The server sends a change event only to a channel that has joined.
Emit(ev) == IF sub = "joined" THEN Append(events, ev) ELSE events

\* The store adds a row to the channel's table and announces it.
StoreInsert ==
  /\ dbMsgs' = Append(dbMsgs, [id |-> nextId, ver |-> 0])
  /\ nextId' = nextId + 1
  /\ events' = Emit([type |-> "INSERT", id |-> nextId])
  /\ liveIds' = IF sub = "joined" /\ fetchSt = "done"
                  THEN liveIds \cup {nextId} ELSE liveIds

ChanInit == chan \in Channels

SyncInit ==
  /\ dbMsgs = <<>>
  /\ nextId = 1
  /\ messages = <<>>
  /\ loading = TRUE
  /\ loadToast = "none"
  /\ fetchSt = "none"
  /\ fetchData = [ok |-> TRUE, rows |-> <<>>]
  /\ sub = "closed"
  /\ events = <<>>
  /\ reads = <<>>
  /\ dupIds = {}
  /\ edits = 0
  /\ liveIds = {}
  /\ elsewhere = <<>>
  /\ rekeys = 0
  /\ drops = 0
  /\ gone = {}

\* useEffect on mount: fetchMessages() is called (its select is sent), then the
\* channel is created and .subscribe() is called; both complete later.
Mount ==
  /\ fetchSt = "none" /\ sub = "closed"
  /\ fetchSt' = "requested"
  /\ sub' = "joining"
  /\ UNCHANGED <<dbMsgs, nextId, messages, loading, loadToast, fetchData,
                 events, reads, dupIds, edits, liveIds>>
  /\ UNCHANGED notSync

\* The store answers the initial select: the ordered rows, or an error.
FetchServer ==
  /\ fetchSt = "requested"
  /\ fetchSt' = "responded"
  /\ \/ fetchData' = [ok |-> TRUE, rows |-> FetchQuery(chan, dbMsgs)]
     \/ fetchData' = [ok |-> FALSE, rows |-> <<>>]
  /\ UNCHANGED <<dbMsgs, nextId, messages, loading, loadToast, sub,
                 events, reads, dupIds, edits, liveIds>>
  /\ UNCHANGED notSync

\* fetchMessages after the await: setMessages(data || []) or the toast; the
\* finally block clears `loading` on both paths.
FetchResolve ==
  /\ fetchSt = "responded"
  /\ fetchSt' = "done"
  /\ IF fetchData.ok
       THEN messages' = fetchData.rows /\ loadToast' = loadToast
       ELSE messages' = messages /\ loadToast' = "Unable to load messages"
  /\ loading' = FALSE
  /\ UNCHANGED <<dbMsgs, nextId, fetchData, sub, events, reads, dupIds, edits, liveIds>>
  /\ UNCHANGED notSync

\* The realtime server acknowledges the subscription.
SubscribeAck ==
  /\ sub = "joining"
  /\ sub' = "joined"
  /\ UNCHANGED <<dbMsgs, nextId, messages, loading, loadToast, fetchSt,
                 fetchData, events, reads, dupIds, edits, liveIds>>
  /\ UNCHANGED notSync

\* Some member inserts a row into the channel's table.
DbInsert ==
  /\ nextId <= MaxMsgs
  /\ dbMsgs' = Append(dbMsgs, [id |-> nextId, ver |-> 0])
  /\ nextId' = nextId + 1
  /\ events' = Emit([type |-> "INSERT", id |-> nextId])
  /\ liveIds' = IF sub = "joined" /\ fetchSt = "done"
                  THEN liveIds \cup {nextId} ELSE liveIds
  /\ UNCHANGED <<messages, loading, loadToast, fetchSt, fetchData, sub,
                 reads, dupIds, edits>>
  /\ UNCHANGED notSync

\* Some client updates a row in place (pin toggle, content edit).
DbUpdate ==
  \E i \in DOMAIN dbMsgs :
    /\ edits < MaxEdits
    /\ edits' = edits + 1
    /\ dbMsgs' = [dbMsgs EXCEPT ![i].ver = @ + 1]
    /\ events' = Emit([type |-> "UPDATE", id |-> dbMsgs[i].id])
    /\ UNCHANGED <<nextId, messages, loading, loadToast, fetchSt,
                   fetchData, sub, reads, dupIds, liveIds>>
    /\ UNCHANGED notSync

\* The author deletes a row.
DbDelete ==
  \E i \in DOMAIN dbMsgs :
    /\ edits < MaxEdits
    /\ edits' = edits + 1
    /\ dbMsgs' = RemoveAt(dbMsgs, i)
    /\ events' = Emit([type |-> "DELETE", id |-> dbMsgs[i].id])
    /\ UNCHANGED <<nextId, messages, loading, loadToast, fetchSt,
                   fetchData, sub, reads, dupIds, liveIds>>
    /\ UNCHANGED notSync

\* The transport delivers a row-inserted event a second time.
Redeliver ==
  \E i \in DOMAIN events :
    /\ events[i].type = "INSERT"
    /\ Cardinality(dupIds) < MaxDup
    /\ events[i].id \notin dupIds
    /\ events' = InsertAfter(events, i, events[i])
    /\ dupIds' = dupIds \cup {events[i].id}
    /\ UNCHANGED <<dbMsgs, nextId, messages, loading, loadToast, fetchSt,
                   fetchData, sub, reads, edits, liveIds>>
    /\ UNCHANGED notSync

\* The subscription callback, MeetupChat: INSERT and UPDATE start a point
\* re-read, DELETE filters the local list at once.
MeetupHandler(payload) ==
  IF payload.type = "INSERT" \/ payload.type = "UPDATE"
    THEN /\ reads' = Append(reads, [kind |-> payload.type, id |-> payload.id,
                                    st |-> "sent", data |-> <<>>])
         /\ messages' = messages
    ELSE /\ messages' = MergeDelete(messages, payload.id)
         /\ reads' = reads

\* The subscription callback, CommunityChat: it has no UPDATE branch.
CommunityHandler(payload) ==
  IF payload.type = "INSERT"
    THEN /\ reads' = Append(reads, [kind |-> payload.type, id |-> payload.id,
                                    st |-> "sent", data |-> <<>>])
         /\ messages' = messages
    ELSE IF payload.type = "DELETE"
      THEN /\ messages' = MergeDelete(messages, payload.id)
           /\ reads' = reads
      ELSE UNCHANGED <<messages, reads>>

\* The client takes the next event off the socket and runs the callback.
HandleEvent ==
  /\ events # <<>>
  /\ events' = Tail(events)
  /\ IF chan = "meetup" THEN MeetupHandler(Head(events))
                        ELSE CommunityHandler(Head(events))
  /\ UNCHANGED <<dbMsgs, nextId, loading, loadToast, fetchSt, fetchData,
                 sub, dupIds, edits, liveIds>>
  /\ gone' = IF Head(events).type = "DELETE"
               THEN gone \cup {Head(events).id} ELSE gone
  /\ UNCHANGED notHandler

\* The store answers one point re-read with the row as it is now, or null;
\* the re-read selects by id over the whole table.
ReadServer ==
  \E i \in DOMAIN reads :
    /\ reads[i].st = "sent"
    /\ reads' = [reads EXCEPT ![i].st = "done",
                              ![i].data = PointRead(dbMsgs \o elsewhere,
                                                    reads[i].id)]
    /\ UNCHANGED <<dbMsgs, nextId, messages, loading, loadToast, fetchSt,
                   fetchData, sub, events, dupIds, edits, liveIds>>
    /\ UNCHANGED notSync

\* The .then() callback of one answered re-read runs; answers of different
\* re-reads may arrive in any order.
ReadResolve ==
  \E i \in DOMAIN reads :
    /\ reads[i].st = "done"
    /\ reads' = RemoveAt(reads, i)
    /\ messages' =
         IF reads[i].data = <<>> THEN messages
         ELSE IF reads[i].kind = "INSERT"
                THEN MergeInsert(messages, reads[i].data[1])
                ELSE MergeUpdate(messages, reads[i].data[1])
    /\ UNCHANGED <<dbMsgs, nextId, loading, loadToast, fetchSt, fetchData,
                   sub, events, dupIds, edits, liveIds>>
    /\ UNCHANGED notSync

SyncNext ==
  \/ Mount
  \/ FetchServer
  \/ FetchResolve
  \/ SubscribeAck
  \/ DbInsert
  \/ DbUpdate
  \/ DbDelete
  \/ Redeliver
  \/ HandleEvent
  \/ ReadServer
  \/ ReadResolve



\* MeetupChat's meetupId prop changes while it stays mounted (the route
\* parameter changes): the effect's cleanup removes the channel, then the
\* effect runs again: fetchMessages() is called and a new channel is
\* subscribed. The component's state and the re-reads already started stay.
\* The new meetup has no messages yet.
ChangeMeetup ==
  /\ chan = "meetup" /\ fetchSt = "done" /\ rekeys < MaxRekeys
  /\ rekeys' = rekeys + 1
  /\ elsewhere' = elsewhere \o dbMsgs
  /\ UNCHANGED drops
  /\ dbMsgs' = <<>>
  /\ sub' = "joining"
  /\ events' = <<>>
  /\ fetchSt' = "requested"
  /\ UNCHANGED <<nextId, messages, loading, loadToast, fetchData, reads,
                 dupIds, edits, liveIds>>
  /\ UNCHANGED <<chan, sendVars, uploadVars, meetupVars, inboxVars, readVars, feedVars, routeVars, resendVars, goneVars>>

\* The realtime connection of the subscribed screen is lost: the server no
\* longer sends it events; events still on their way are lost with the
\* socket, or had already arrived.
Disconnect ==
  /\ sub = "joined" /\ drops < MaxDrops
  /\ drops' = drops + 1
  /\ sub' = "lost"
  /\ \/ events' = <<>>
     \/ events' = events
  /\ UNCHANGED <<dbMsgs, nextId, messages, loading, loadToast, fetchSt,
                 fetchData, reads, dupIds, edits, liveIds>>
  /\ UNCHANGED <<chan, elsewhere, rekeys, sendVars, uploadVars, meetupVars, inboxVars, readVars, feedVars, routeVars, resendVars, goneVars>>

\* The connection is re-established and the channel joined again. The
\* component passes no status callback to .subscribe() and reacts to nothing
\* here.
Reconnect ==
  /\ sub = "lost"
  /\ sub' = "joined"
  /\ UNCHANGED <<dbMsgs, nextId, messages, loading, loadToast, fetchSt,
                 fetchData, events, reads, dupIds, edits, liveIds>>
  /\ UNCHANGED notSync

ReconnectNext ==
  \/ Mount
  \/ FetchServer
  \/ FetchResolve
  \/ SubscribeAck
  \/ DbInsert
  \/ DbUpdate
  \/ DbDelete
  \/ HandleEvent
  \/ ReadServer
  \/ ReadResolve
  \/ Disconnect
  \/ Reconnect

RekeyNext ==
  \/ Mount
  \/ FetchServer
  \/ FetchResolve
  \/ SubscribeAck
  \/ DbInsert
  \/ HandleEvent
  \/ ReadServer
  \/ ReadResolve
  \/ ChangeMeetup

-----------------------------------------------------------------------------
(* Claims on the realtime chat synchronisation *)

\* Every event the server sent has been handled and every re-read resolved,
\* after a successful initial fetch, with no event delivered twice.
SyncSettled ==
  /\ fetchSt = "done" /\ fetchData.ok
  /\ sub = "joined"
  /\ events = <<>> /\ reads = <<>>

\* Every row of the channel was inserted after the screen had completed its
\* initial fetch and its subscription had joined: none raced with the mount.
AllRowsInsertedLive == \A i \in DOMAIN dbMsgs : dbMsgs[i].id \in liveIds

\* C1: for messages m1..mn inserted in that order (here even in the most
\* favourable case: all inserted after the mount completed, no update, no
\* delete, no repeated delivery), once the initial fetch and all realtime
\* events with their point re-reads have been delivered, the local list is
\* exactly the channel's rows in creation order.
C1_LocalListEqualsChannel ==
  (SyncSettled /\ AllRowsInsertedLive /\ edits = 0 /\ dupIds = {})
    => Ids(messages) = Ids(dbMsgs)

\* Both deliveries of x's row-inserted event have been handled and resolved.
BothDeliveriesHandled(x) ==
  /\ \A i \in DOMAIN events : events[i].id # x
  /\ \A i \in DOMAIN reads : reads[i].id # x

\* C2: when the same row-inserted event for id X (a row inserted after the
\* mount completed) is delivered twice, X does not appear more than once in
\* the local list.
C2_DuplicateInsertAppearsOnce ==
  \A x \in dupIds \cap liveIds :
    BothDeliveriesHandled(x) => Count(x, messages) <= 1

\* C12: handling a row-updated event starts a re-read of the row and leaves
\* the list's ids where they are, and when that re-read resolves with the row
\* the list holds the same ids in the same positions with the entry of that
\* id replaced by the row read; on both chat screens.
C12_UpdateReplacesInPlace ==
  [][/\ (events # <<>> /\ events' = Tail(events) /\ Head(events).type = "UPDATE") =>
          /\ Ids(messages') = Ids(messages)
          /\ Len(reads') = Len(reads) + 1
          /\ reads'[Len(reads')].kind = "UPDATE"
          /\ reads'[Len(reads')].id = Head(events).id
     /\ \A i \in DOMAIN reads :
          (/\ reads[i].kind = "UPDATE" /\ reads[i].st = "done"
           /\ reads[i].data # <<>> /\ reads' = RemoveAt(reads, i)) =>
             /\ Ids(messages') = Ids(messages)
             /\ \A j \in DOMAIN messages :
                  messages'[j] = IF messages[j].id = reads[i].id
                                   THEN reads[i].data[1] ELSE messages[j]]_vars

\* The ids of rows rs.
IdSet(rs) == {rs[i].id : i \in DOMAIN rs}

\* C13: once the screen's meetupId has changed, the previous subscription is
\* closed and none of its handlers acts any more: a re-read started by the
\* handler for a row of the previous meetup no longer changes the list.
C13_NoHandlerOutlivesScreen ==
  [][\A i \in DOMAIN reads :
       (reads' = RemoveAt(reads, i) /\ reads[i].id \in IdSet(elsewhere)) =>
         messages' = messages]_vars

\* C15: once the initial fetch of a chat screen has failed, the 'Unable to
\* load messages' toast is shown and the screen is still in its loading state.
C15_FailedFetchKeepsLoading ==
  (fetchSt = "done" /\ ~fetchData.ok) =>
    (loadToast = "Unable to load messages" /\ loading)

\* C14: when the lost realtime connection of an open chat screen is
\* re-established, the client re-issues the initial message fetch.
C14_ReconnectRefetches ==
  [][(sub = "lost" /\ sub' = "joined") => fetchSt' = "requested"]_vars

-----------------------------------------------------------------------------
(* Text send path: handleSendMessage of MeetupChat and CommunityChat *)

(* A text is a sequence of tokens [k, n]: k the kind of token, n the number  *)
(* of characters it stands for.                                             *)
(*   sp    one whitespace character                                         *)
(*   lt    the character <          gt    the character >                   *)
(*   so    the text <script>        sc    the text </script>                *)
(*   maps  the text https://maps.google.com/x                               *)
(*   web   the text https://example.com                                     *)
(*   run   n letters                                                        *)

MaxTokens == 3      \* tokens in a composed text

\* .max(5000) of chatMessageContentSchema
MaxContentLen == 5000

Sp == [k |-> "sp", n |-> 1]
Lt == [k |-> "lt", n |-> 1]
Gt == [k |-> "gt", n |-> 1]
ScriptOpen == [k |-> "so", n |-> 8]
ScriptClose == [k |-> "sc", n |-> 9]
MapsUrl == [k |-> "maps", n |-> 25]
WebUrl == [k |-> "web", n |-> 19]
Run(n) == [k |-> "run", n |-> n]

Tokens == {Sp, Lt, Gt, ScriptOpen, ScriptClose, MapsUrl, WebUrl,
           Run(1), Run(MaxContentLen)}

Texts == UNION {[1..n -> Tokens] : n \in 0..MaxTokens}

\* String.prototype.length
RECURSIVE TextLen(_)
TextLen(s) == IF s = <<>> THEN 0 ELSE Head(s).n + TextLen(Tail(s))

RECURSIVE TrimStart(_)
TrimStart(s) ==
  IF s # <<>> /\ Head(s).k = "sp" THEN TrimStart(Tail(s)) ELSE s

RECURSIVE TrimEnd(_)
TrimEnd(s) ==
  IF s # <<>> /\ s[Len(s)].k = "sp" THEN TrimEnd(SubSeq(s, 1, Len(s) - 1)) ELSE s

\* String.prototype.trim
Trim(s) == TrimEnd(TrimStart(s))

\* The index of the first token of s, from index i on, whose kind is in ks;
\* 0 when there is none.
RECURSIVE FirstFrom(_, _, _)
FirstFrom(s, i, ks) ==
  IF i > Len(s) THEN 0
  ELSE IF s[i].k \in ks THEN i ELSE FirstFrom(s, i + 1, ks)

\* .replace(/<script\b[^<]*(?:(?!<\/script>)<[^<]*)*<\/script>/gi, ''):
\* an opening <script> is removed with everything up to and including the
\* first </script> after it; without one it stays.
RECURSIVE StripScripts(_)
StripScripts(s) ==
  IF s = <<>> THEN <<>>
  ELSE LET j == FirstFrom(s, 2, {"sc"}) IN
       IF Head(s).k = "so" /\ j > 0
         THEN StripScripts(SubSeq(s, j + 1, Len(s)))
         ELSE <<Head(s)>> \o StripScripts(Tail(s))

\* .replace(/<[^>]*>/g, ''): from a < to the first > after it. <script> and
\* </script> begin with < and end with >.
RECURSIVE StripTags(_)
StripTags(s) ==
  IF s = <<>> THEN <<>>
  ELSE IF Head(s).k \in {"so", "sc"} THEN StripTags(Tail(s))
  ELSE LET j == FirstFrom(s, 2, {"gt", "so", "sc"}) IN
       IF Head(s).k = "lt" /\ j > 0
         THEN StripTags(SubSeq(s, j + 1, Len(s)))
         ELSE <<Head(s)>> \o StripTags(Tail(s))

\* sanitizeText
sanitizeText(text) == Trim(StripTags(StripScripts(text)))

\* extractUrls: text.match(/(https?:\/\/[^\s]+)/g) || []. A match starts at a
\* URL and runs to the next whitespace; the result lists how each match begins.
RECURSIVE extractUrls(_)
extractUrls(s) ==
  IF s = <<>> THEN <<>>
  ELSE IF Head(s).k \in {"maps", "web"}
    THEN LET j == FirstFrom(s, 2, {"sp"}) IN
         <<Head(s).k>> \o (IF j = 0 THEN <<>> ELSE extractUrls(SubSeq(s, j, Len(s))))
    ELSE extractUrls(Tail(s))

\* validateGoogleMapsLink: a URL that googleMapsUrlRegex matches at its start.
validateGoogleMapsLink(url) == url = "maps"

\* A schema that would let one character more through.
ValidContent_OffByOne(content) ==
  LET n == TextLen(Trim(content)) IN n >= 1 /\ n <= MaxContentLen + 1

\* chatMessageContentSchema.safeParse({ content }).success
ValidContent(content) ==
  LET n == TextLen(Trim(content)) IN n >= 1 /\ n <= MaxContentLen

\* MeetupChat: 'location' when some extracted URL is a map link, else 'text'.
\* CommunityChat: always 'text'.
MessageType(c, sanitizedContent) ==
  IF c = "meetup"
    THEN LET urls == extractUrls(sanitizedContent) IN
         IF Len(urls) > 0 /\ \E i \in DOMAIN urls : validateGoogleMapsLink(urls[i])
           THEN "location" ELSE "text"
    ELSE "text"

NoRow == [type |-> "none", content |-> <<>>]

SendInit ==
  /\ newMessage = <<>>
  /\ sending = FALSE
  /\ sendPc = "idle"
  /\ pending = NoRow
  /\ sendToast = "none"
  /\ rows = <<>>
  /\ sendResult = "none"
  /\ submitted = <<>>

\* The user composes a text: onChange -> setNewMessage(e.target.value). The
\* Input is disabled while sending.
Type ==
  /\ ~sending /\ sendResult = "none" /\ newMessage = <<>>
  /\ newMessage' \in Texts \ {<<>>}
  /\ UNCHANGED <<sending, sendPc, pending, sendToast, rows, sendResult, submitted>>
  /\ UNCHANGED notSend

\* handleSendMessage up to its await (or its return).
Submit ==
  /\ sendPc = "idle"
  /\ submitted' = newMessage
  /\ IF Trim(newMessage) = <<>> \/ sending
       THEN \* if (!newMessage.trim() || !user || sending) return;
            /\ sendResult' = "ignored"
            /\ UNCHANGED <<sending, sendPc, pending, sendToast>>
       ELSE IF ~ValidContent(newMessage)
         THEN \* toast 'Invalid message'; setSending(false); return
              /\ sendResult' = "invalid"
              /\ sendToast' = "Invalid message"
              /\ sending' = FALSE
              /\ UNCHANGED <<sendPc, pending>>
         ELSE \* sanitize, classify, start the insert
              /\ sendResult' = "inserting"
              /\ sending' = TRUE
              /\ sendPc' = "inserting"
              /\ pending' = [type |-> MessageType(chan, sanitizeText(newMessage)),
                             content |-> sanitizeText(newMessage)]
              /\ UNCHANGED sendToast
  /\ UNCHANGED <<newMessage, rows>>
  /\ UNCHANGED notSend

\* A handler that would also append the sent row to the local list.
InsertOk_Optimistic ==
  /\ messages' = Append(messages, [id |-> nextId, ver |-> 0])
  /\ sendPc = "inserting"
  /\ rows' = Append(rows, [id |-> nextId, chan |-> chan, type |-> pending.type,
                           content |-> pending.content, raw |-> submitted])
  /\ StoreInsert
  /\ newMessage' = <<>>
  /\ sending' = FALSE
  /\ sendPc' = "idle"
  /\ pending' = NoRow
  /\ sendResult' = "sent"
  /\ UNCHANGED <<sendToast, submitted>>
  /\ UNCHANGED <<chan, screenVars, keyVars, uploadVars, meetupVars, inboxVars, readVars, feedVars, routeVars, resendVars, goneVars>>

\* The insert succeeded: the row is in the channel's table and announced;
\* setNewMessage(''); finally. setMessages is not called.
\* (raw records the composed text the row came from.)
InsertOk ==
  /\ messages' = messages
  /\ sendPc = "inserting"
  /\ rows' = Append(rows, [id |-> nextId, chan |-> chan, type |-> pending.type,
                           content |-> pending.content, raw |-> submitted])
  /\ StoreInsert
  /\ newMessage' = <<>>
  /\ sending' = FALSE
  /\ sendPc' = "idle"
  /\ pending' = NoRow
  /\ sendResult' = "sent"
  /\ UNCHANGED <<sendToast, submitted>>
  /\ UNCHANGED <<chan, screenVars, keyVars, uploadVars, meetupVars, inboxVars, readVars, feedVars, routeVars, resendVars, goneVars>>

\* The insert failed: toast 'Unable to send message'; finally.
InsertError ==
  /\ sendPc = "inserting"
  /\ sendToast' = "Unable to send message"
  /\ sending' = FALSE
  /\ sendPc' = "idle"
  /\ pending' = NoRow
  /\ sendResult' = "error"
  /\ UNCHANGED <<newMessage, rows, submitted>>
  /\ UNCHANGED notSend

SendNext ==
  \/ Type
  \/ Submit
  \/ InsertOk
  \/ InsertError

-----------------------------------------------------------------------------
(* Claims on the text send path *)

TrimmedLen(text) == TextLen(Trim(text))

\* The text the claim calls rejectable: trimmed empty or longer than 5000.
Rejectable(text) == TrimmedLen(text) = 0 \/ TrimmedLen(text) > 5000

Attempted == sendResult # "none"

TagFree(text) ==
  \A i \in DOMAIN text :
    text[i].k \in {"lt", "so", "sc"} =>
      \A j \in DOMAIN text : j > i => text[j].k \notin {"gt", "so", "sc"}

\* C8: every row written by the text send path has content that is non-empty,
\* at most 5000 characters long and free of HTML tags.
C8_StoredContentNonEmpty ==
  \A i \in DOMAIN rows :
    /\ TextLen(rows[i].content) >= 1
    /\ TextLen(rows[i].content) <= 5000
    /\ TagFree(rows[i].content)

\* The sanitized text holds a URL (a maximal run of non-whitespace beginning
\* at a URL) that has the map-link shape.
HasMapLink(text) ==
  \E i \in DOMAIN text :
    /\ text[i].k = "maps"
    /\ \A j \in 1..(i - 1) :
         text[j].k \in {"maps", "web"} => \E m \in j..i : text[m].k = "sp"

\* C9: on the text send path of both channels the stored type is 'location'
\* when the sanitized text holds a map link and 'text' otherwise.
C9_TypeFollowsMapLink ==
  \A i \in DOMAIN rows :
    rows[i].type = IF HasMapLink(rows[i].content) THEN "location" ELSE "text"

-----------------------------------------------------------------------------
(* File upload path: handleFileUpload of MeetupChat and CommunityChat *)

MaxUploads == 2     \* handleFileUpload calls
MaxClock == 1       \* milliseconds that pass

\* fileValidation.maxSize: 10 * 1024 * 1024
maxSize == 10 * 1024 * 1024

\* fileValidation.allowedFileTypes
allowedFileTypes == {"image/jpeg", "image/png", "image/gif", "image/webp",
                     "application/pdf", "text/plain"}

\* MIME types a browser may report for a picked file.
MimeTypes == allowedFileTypes \cup {"image/svg+xml", "application/zip"}

\* 9MB, exactly 10MB, one byte more, 12MB
FileSizes == {9 * 1024 * 1024, maxSize, maxSize + 1, 12 * 1024 * 1024}

FileNames == {"photo.png", "notes.pdf"}

Files == [size : FileSizes, type : MimeTypes, name : FileNames]

NoFile == [size |-> 0, type |-> "none", name |-> "none"]

\* file.name.split('.').pop()
FileExt(name) == IF name = "photo.png" THEN "png" ELSE "pdf"

\* file.type.startsWith('image/')
StartsWithImage(type) ==
  type \in {"image/jpeg", "image/png", "image/gif", "image/webp", "image/svg+xml"}

\* A validation that would only look at the size.
validateFile_NoTypeCheck(file) == ~(file.size > maxSize)

\* validateFile(file) with its default allowedTypes: .valid
validateFile(file) ==
  IF file.size > maxSize THEN FALSE
  ELSE IF file.type \notin allowedFileTypes THEN FALSE
  ELSE TRUE

\* The signed-in user.
Me == "u1"

\* `${meetupId}/${user.id}/${Date.now()}.${fileExt}`, or with the folder
\* "community" in CommunityChat.
BuildPath(c, user, now, ext) ==
  [folder |-> IF c = "meetup" THEN "m1" ELSE "community",
   user |-> user, time |-> now, ext |-> ext]

NoPath == [folder |-> "none", user |-> "none", time |-> 0, ext |-> "none"]

\* storage.from('meetup-uploads').getPublicUrl(fileName).data.publicUrl
getPublicUrl(path) == [bucket |-> "meetup-uploads", public |-> path]

StoredPaths == {o.path : o \in storage}

UploadInit ==
  /\ upFile = NoFile
  /\ uploading = FALSE
  /\ upPc = "idle"
  /\ upPath = NoPath
  /\ storage = {}
  /\ upToast = "none"
  /\ upResult = "none"
  /\ upCalls = 0
  /\ clock = 0

\* Time passes.
Tick ==
  /\ clock < MaxClock
  /\ clock' = clock + 1
  /\ UNCHANGED <<upFile, uploading, upPc, upPath, storage, upToast, upResult,
                 upCalls, rows>>
  /\ UNCHANGED notUpload

\* handleFileUpload(file) up to its first await (or its return). The upload
\* button is disabled while `uploading`.
StartUpload ==
  \E file \in Files :
    /\ upPc = "idle" /\ upCalls < MaxUploads
    /\ upCalls' = upCalls + 1
    /\ upFile' = file
    /\ IF ~validateFile(file)
         THEN \* toast 'Invalid file'; return
              /\ upToast' = "Invalid file"
              /\ upResult' = "invalid"
              /\ UNCHANGED <<uploading, upPc, upPath>>
         ELSE /\ uploading' = TRUE
              /\ upPath' = BuildPath(chan, Me, clock, FileExt(file.name))
              /\ upPc' = "storing"
              /\ upResult' = "storing"
              /\ UNCHANGED upToast
    /\ UNCHANGED <<storage, clock, rows>>
    /\ UNCHANGED notUpload

\* storage.upload(fileName, file) succeeded: the object exists. An upload to
\* a path that already holds an object cannot succeed (no upsert).
StorageOk ==
  /\ upPc = "storing"
  /\ upPath \notin StoredPaths
  /\ storage' = storage \cup {[path |-> upPath, size |-> upFile.size,
                               type |-> upFile.type]}
  /\ upPc' = "inserting"
  /\ upResult' = "inserting"
  /\ UNCHANGED <<upFile, uploading, upPath, upToast, upCalls, clock, rows>>
  /\ UNCHANGED notUpload

\* storage.upload failed: throw uploadError -> catch toast -> finally.
StorageError ==
  /\ upPc = "storing"
  /\ upToast' = "Unable to upload file"
  /\ uploading' = FALSE
  /\ upPc' = "idle"
  /\ upResult' = "storeError"
  /\ UNCHANGED <<upFile, upPath, storage, upCalls, clock, rows>>
  /\ UNCHANGED notUpload

\* The Message insert succeeded: toast 'File uploaded'; finally.
UploadInsertOk ==
  /\ upPc = "inserting"
  /\ rows' = Append(rows, [id |-> nextId, chan |-> chan, user_id |-> Me,
                           type |-> IF StartsWithImage(upFile.type)
                                      THEN "image" ELSE "file",
                           content |-> upFile.name,
                           file_url |-> getPublicUrl(upPath),
                           file_name |-> upFile.name,
                           file_size |-> upFile.size])
  /\ upToast' = "File uploaded"
  /\ uploading' = FALSE
  /\ upPc' = "idle"
  /\ upResult' = "done"
  /\ StoreInsert
  /\ UNCHANGED <<upFile, upPath, storage, upCalls, clock>>
  /\ UNCHANGED <<chan, messages, screenVars, keyVars, sendLocal, meetupVars, inboxVars, readVars, feedVars, routeVars, resendVars, goneVars>>

\* The Message insert failed: throw insertError -> catch toast -> finally.
UploadInsertError ==
  /\ upPc = "inserting"
  /\ upToast' = "Unable to upload file"
  /\ uploading' = FALSE
  /\ upPc' = "idle"
  /\ upResult' = "insertError"
  /\ UNCHANGED <<upFile, upPath, storage, upCalls, clock, rows>>
  /\ UNCHANGED notUpload

UploadNext ==
  \/ Tick
  \/ StartUpload
  \/ StorageOk
  \/ StorageError
  \/ UploadInsertOk
  \/ UploadInsertError

-----------------------------------------------------------------------------
(* Claims on the file upload path *)

\* The stored object a row's file_url points at.
ObjectOf(row) == CHOOSE o \in storage : getPublicUrl(o.path) = row.file_url

\* C10: a file larger than 10MB or of a MIME type outside the allow-list is
\* rejected ('Invalid file') with no storage write and no Message insert: no
\* object and no row ever stems from such a file. A file of at most 10MB with
\* an allowed type passes validation, and when its call completes the object
\* is stored and exactly one Message refers to it, of type 'image' when the
\* MIME type starts with image/ and 'file' otherwise.
C10_UploadValidated ==
  LET tooBig(f) == f.size > 10485760
      allowed(f) == f.type \in {"image/jpeg", "image/png", "image/gif",
                                "image/webp", "application/pdf", "text/plain"}
  IN
  /\ \A o \in storage : ~tooBig(o) /\ allowed(o)
  /\ \A i \in DOMAIN rows :
       /\ \E o \in storage : getPublicUrl(o.path) = rows[i].file_url
       /\ rows[i].file_size = ObjectOf(rows[i]).size
       /\ rows[i].type =
            IF ObjectOf(rows[i]).type \in {"image/jpeg", "image/png",
                                           "image/gif", "image/webp"}
              THEN "image" ELSE "file"
  /\ (upResult # "none" /\ (tooBig(upFile) \/ ~allowed(upFile))) =>
       (upResult = "invalid" /\ upToast = "Invalid file" /\ upPc = "idle")
  /\ (upResult # "none" /\ ~tooBig(upFile) /\ allowed(upFile)) =>
       upResult \in {"storing", "inserting", "done", "storeError", "insertError"}
  /\ upResult = "done" =>
       /\ upPath \in StoredPaths
       /\ Cardinality({i \in DOMAIN rows :
                         rows[i].file_url = getPublicUrl(upPath)}) = 1

\* C10's case: a PDF of exactly 10MB has been uploaded and produced a Message
\* of type 'file', after a 12MB file had been refused.
C10_Witness ==
  /\ upResult = "done" /\ upCalls = 2
  /\ upFile.size = 10485760 /\ upFile.type = "application/pdf"
  /\ Len(rows) = 1 /\ rows[1].type = "file"
  /\ Cardinality(storage) = 1

-----------------------------------------------------------------------------
(* The row store: meetup, memberships, join requests and their policies *)

Users == {"u0", "u1", "u2"}

\* The user who creates the meetup (meetups.creator_id).
Creator == "u0"

MeetupId == "m1"

Null == "null"

\* profiles.username of each user; it may be unset.
Username(u) == IF u = "u0" THEN "ana" ELSE IF u = "u1" THEN "ben" ELSE Null

\* CreateMeetup: maxMembers: noLimit ? 999999 : parseInt(maxMembers)
NoLimit == 999999

\* Values of max_members the create form accepts (at least 2).
MaxMembersChoices == {2, NoLimit}

MeetupTypes == {"open", "locked"}

NoMeetup == [type |-> "none", max_members |-> 0, creator_id |-> "none",
             title |-> "none"]

\* A meetup_join_requests row: id, user_id, status, and `by`, the user whose
\* UPDATE last changed the row (Null on a row never updated).
NoRequest == [id |-> 0, user_id |-> "none", status |-> "none", by |-> "none"]

PerUser(v) == [u \in Users |-> v]

\* The users who open the meetup's page to join it.
Joiners == Users \ {Creator}

MaxJoinCalls == 2    \* handleJoinMeetup calls of one user

\* meetup_members insert policies: "Authenticated users can join meetups"
\* or "Meetup creators can add members to their meetups".
MemberInsertAllowed(uid, user_id) ==
  uid = user_id \/ meetup.creator_id = uid

\* INSERT INTO meetup_members succeeds: the policy admits the row and
\* UNIQUE(meetup_id, user_id) is not violated.
MemberInsertOk(uid, user_id) ==
  MemberInsertAllowed(uid, user_id) /\ user_id \notin Range(dbMembers)

\* A variant of the update policy that would also admit the requester.
RequestUpdateAllowed_Own(uid, row) ==
  meetup.creator_id = uid \/ row.user_id = uid

\* meetup_join_requests update policy: only the creator of the meetup.
RequestUpdateAllowed(uid, row) == meetup.creator_id = uid

\* UPDATE meetup_join_requests SET status = ... WHERE id = ... as user uid:
\* rows the policy hides from uid are left as they are, without an error.
RequestUpdate(uid, id, status) ==
  [i \in DOMAIN dbRequests |->
     IF dbRequests[i].id = id /\ RequestUpdateAllowed(uid, dbRequests[i])
       THEN [dbRequests[i] EXCEPT !.status = status, !.by = uid]
       ELSE dbRequests[i]]

\* The rows of meetup_join_requests of user u.
RequestsOf(db, u) == {i \in DOMAIN db : db[i].user_id = u}

StoreInit ==
  /\ meetup = NoMeetup
  /\ dbMembers = <<>>
  /\ dbRequests = <<>>
  /\ dbActivities = <<>>
  /\ dbResponses = <<>>
  /\ notifications = <<>>

\* addMeetup: insert the meetups row, then add the creator as first member
\* (the result of the second insert is not looked at).
addMeetup ==
  \E type \in MeetupTypes, max \in MaxMembersChoices, memberOk \in BOOLEAN :
    /\ meetup = NoMeetup
    /\ meetup' = [type |-> type, max_members |-> max, creator_id |-> Creator,
                  title |-> "Trip"]
    /\ dbMembers' = IF memberOk THEN Append(dbMembers, Creator) ELSE dbMembers
    /\ UNCHANGED <<dbRequests, dbActivities, dbResponses, notifications>>
    /\ UNCHANGED <<pageVars, panelVars, cardVars, rows>>
    /\ UNCHANGED notMeetup

-----------------------------------------------------------------------------
(* MeetupDetails page: fetchMeetupDetails, fetchMembers, handleJoinMeetup *)

PageInit ==
  /\ meetupView = PerUser(NoMeetup)
  /\ members = PerUser(<<>>)
  /\ isMember = PerUser(FALSE)
  /\ joinPc = PerUser("idle")
  /\ existingRequest = PerUser(NoRequest)
  /\ joinToast = PerUser("none")
  /\ atCapacity = PerUser(FALSE)
  /\ joinWrote = PerUser(FALSE)
  /\ joinCalls = PerUser(0)

\* fetchMeetupDetails on mount: setMeetup, setMembers, setIsMember.
fetchMeetupDetails(u) ==
  /\ meetup # NoMeetup /\ meetupView[u] = NoMeetup
  /\ meetupView' = [meetupView EXCEPT ![u] = meetup]
  /\ members' = [members EXCEPT ![u] = dbMembers]
  /\ isMember' = [isMember EXCEPT ![u] = u \in Range(dbMembers)]
  /\ UNCHANGED <<joinPc, existingRequest, joinToast, atCapacity, joinWrote,
                 joinCalls>>
  /\ UNCHANGED <<storeVars, panelVars, cardVars, rows>>
  /\ UNCHANGED notMeetup

\* handleJoinMeetup up to its first await (or its return). The Join button is
\* rendered when !isMember.
handleJoinMeetup(u) ==
  /\ joinPc[u] = "idle" /\ meetupView[u] # NoMeetup /\ ~isMember[u]
  /\ joinCalls[u] < MaxJoinCalls
  /\ joinCalls' = [joinCalls EXCEPT ![u] = joinCalls[u] + 1]
  /\ atCapacity' = [atCapacity EXCEPT ![u] = Len(dbMembers) >= meetup.max_members]
  /\ joinWrote' = [joinWrote EXCEPT ![u] = FALSE]
  /\ IF Len(members[u]) >= meetupView[u].max_members
       THEN \* toast 'Group is full'; return
            /\ joinToast' = [joinToast EXCEPT ![u] = "Group is full"]
            /\ UNCHANGED joinPc
       ELSE /\ joinToast' = [joinToast EXCEPT ![u] = "none"]
            /\ joinPc' = [joinPc EXCEPT ![u] =
                 IF meetupView[u].type = "locked" THEN "selecting" ELSE "joining"]
  /\ UNCHANGED <<meetupView, members, isMember, existingRequest>>
  /\ UNCHANGED <<storeVars, panelVars, cardVars, rows>>
  /\ UNCHANGED notMeetup

\* Locked meetup: the select of the caller's own request resolved
\* (maybeSingle: the row when there is exactly one).
SelectRequest(u) ==
  /\ joinPc[u] = "selecting"
  /\ LET found == RequestsOf(dbRequests, u)
         existing == IF Cardinality(found) = 1
                       THEN dbRequests[CHOOSE i \in found : TRUE]
                       ELSE NoRequest
     IN /\ existingRequest' = [existingRequest EXCEPT ![u] = existing]
        /\ IF existing # NoRequest /\ existing.status = "pending"
             THEN \* toast 'Request already sent'; return
                  /\ joinToast' = [joinToast EXCEPT ![u] = "Request already sent"]
                  /\ joinPc' = [joinPc EXCEPT ![u] = "idle"]
             ELSE /\ joinPc' = [joinPc EXCEPT ![u] =
                       IF existing # NoRequest THEN "updating" ELSE "requesting"]
                  /\ UNCHANGED joinToast
  /\ UNCHANGED <<meetupView, members, isMember, atCapacity, joinWrote, joinCalls>>
  /\ UNCHANGED <<storeVars, panelVars, cardVars, rows>>
  /\ UNCHANGED notMeetup

\* Locked meetup, a request that is not pending exists: update it to
\* 'pending' by id; no error -> toast 'Request sent!'.
UpdateRequest(u) ==
  /\ joinPc[u] = "updating"
  /\ dbRequests' = RequestUpdate(u, existingRequest[u].id, "pending")
  /\ joinWrote' = [joinWrote EXCEPT ![u] = dbRequests' # dbRequests]
  /\ joinToast' = [joinToast EXCEPT ![u] = "Request sent!"]
  /\ joinPc' = [joinPc EXCEPT ![u] = "idle"]
  /\ UNCHANGED <<meetupView, members, isMember, existingRequest, atCapacity,
                 joinCalls>>
  /\ UNCHANGED <<meetup, dbMembers, dbActivities, dbResponses, notifications>>
  /\ UNCHANGED <<panelVars, cardVars, rows>>
  /\ UNCHANGED notMeetup

\* Locked meetup, no request exists: insert one with status 'pending'.
\* UNIQUE(meetup_id, user_id) makes the insert fail when a row exists.
InsertRequest(u) ==
  /\ joinPc[u] = "requesting"
  /\ IF RequestsOf(dbRequests, u) = {}
       THEN /\ dbRequests' = Append(dbRequests,
                 [id |-> Len(dbRequests) + 1, user_id |-> u, status |-> "pending",
                  by |-> Null])
            /\ joinWrote' = [joinWrote EXCEPT ![u] = TRUE]
            /\ joinToast' = [joinToast EXCEPT ![u] = "Request sent!"]
       ELSE /\ joinToast' = [joinToast EXCEPT ![u] = "Unable to join"]
            /\ UNCHANGED <<dbRequests, joinWrote>>
  /\ joinPc' = [joinPc EXCEPT ![u] = "idle"]
  /\ UNCHANGED <<meetupView, members, isMember, existingRequest, atCapacity,
                 joinCalls>>
  /\ UNCHANGED <<meetup, dbMembers, dbActivities, dbResponses, notifications>>
  /\ UNCHANGED <<panelVars, cardVars, rows>>
  /\ UNCHANGED notMeetup

\* Open meetup: insert the Membership; toast 'Joined meetup!';
\* setIsMember(true); fetchMembers() is started.
InsertMember(u) ==
  /\ joinPc[u] = "joining"
  /\ IF MemberInsertOk(u, u)
       THEN /\ dbMembers' = Append(dbMembers, u)
            /\ joinWrote' = [joinWrote EXCEPT ![u] = TRUE]
            /\ joinToast' = [joinToast EXCEPT ![u] = "Joined meetup!"]
            /\ isMember' = [isMember EXCEPT ![u] = TRUE]
            /\ joinPc' = [joinPc EXCEPT ![u] = "refetching"]
       ELSE /\ joinToast' = [joinToast EXCEPT ![u] = "Unable to join"]
            /\ joinPc' = [joinPc EXCEPT ![u] = "idle"]
            /\ UNCHANGED <<dbMembers, joinWrote, isMember>>
  /\ UNCHANGED <<meetupView, members, existingRequest, atCapacity, joinCalls>>
  /\ UNCHANGED <<meetup, dbRequests, dbActivities, dbResponses, notifications>>
  /\ UNCHANGED <<panelVars, cardVars, rows>>
  /\ UNCHANGED notMeetup

\* fetchMembers started by a successful join resolved.
fetchMembers(u) ==
  /\ joinPc[u] = "refetching"
  /\ members' = [members EXCEPT ![u] = dbMembers]
  /\ isMember' = [isMember EXCEPT ![u] = u \in Range(dbMembers)]
  /\ joinPc' = [joinPc EXCEPT ![u] = "idle"]
  /\ UNCHANGED <<meetupView, existingRequest, joinToast, atCapacity, joinWrote,
                 joinCalls>>
  /\ UNCHANGED <<storeVars, panelVars, cardVars, rows>>
  /\ UNCHANGED notMeetup

-----------------------------------------------------------------------------
(* PendingRequests panel of the creator: fetchRequests, handleRequest *)

NoProcessing == [id |-> 0, user_id |-> "none"]

PanelInit ==
  /\ requests = <<>>
  /\ processing = NoProcessing
  /\ requestToast = "none"

\* fetchRequests: the pending requests of the meetup, in created_at order.
fetchRequests ==
  /\ meetup # NoMeetup /\ processing = NoProcessing
  /\ requests' = SeqFilter(dbRequests, {r \in Range(dbRequests) : r.status = "pending"})
  /\ requests' # requests
  /\ UNCHANGED <<processing, requestToast>>
  /\ UNCHANGED <<storeVars, pageVars, cardVars, rows>>
  /\ UNCHANGED notMeetup

\* handleRequest(requestId, userId, approved) on a listed request: the status
\* update; a rejection ends here with its toast.
handleRequest ==
  \E i \in DOMAIN requests, approved \in BOOLEAN :
    /\ processing = NoProcessing
    /\ dbRequests' = RequestUpdate(Creator, requests[i].id,
                                   IF approved THEN "approved" ELSE "rejected")
    /\ IF approved
         THEN /\ processing' = [id |-> requests[i].id,
                                user_id |-> requests[i].user_id]
              /\ UNCHANGED requestToast
         ELSE /\ requestToast' = "Request rejected"
              /\ UNCHANGED processing
    /\ UNCHANGED requests
    /\ UNCHANGED <<meetup, dbMembers, dbActivities, dbResponses, notifications>>
    /\ UNCHANGED <<pageVars, cardVars, rows>>
    /\ UNCHANGED notMeetup

\* handleRequest, approved: the Membership insert for the requester.
ApproveInsert ==
  /\ processing # NoProcessing
  /\ IF MemberInsertOk(Creator, processing.user_id)
       THEN /\ dbMembers' = Append(dbMembers, processing.user_id)
            /\ requestToast' = "Request approved"
       ELSE /\ requestToast' = "Unable to process request"
            /\ UNCHANGED dbMembers
  /\ processing' = NoProcessing
  /\ UNCHANGED requests
  /\ UNCHANGED <<meetup, dbRequests, dbActivities, dbResponses, notifications>>
  /\ UNCHANGED <<pageVars, cardVars, rows>>
  /\ UNCHANGED notMeetup

\* handleRequest, approved: the Membership insert returns an error of the
\* store or the network (insertError is thrown); the status update made
\* before it stays.
ApproveInsertError ==
  /\ processing # NoProcessing
  /\ requestToast' = "Unable to process request"
  /\ processing' = NoProcessing
  /\ UNCHANGED requests
  /\ UNCHANGED storeVars
  /\ UNCHANGED <<pageVars, cardVars, rows>>
  /\ UNCHANGED notMeetup

-----------------------------------------------------------------------------
(* Requests a signed-in user can send to the store's API with their own
   session, outside the pages; the row-level policies decide. *)

RequestStatuses == {"pending", "approved", "rejected"}

\* UPDATE meetup_join_requests SET status = ... WHERE id = ... as user u.
ApiUpdateRequest(u) ==
  \E i \in DOMAIN dbRequests, status \in RequestStatuses :
    /\ dbRequests' = RequestUpdate(u, dbRequests[i].id, status)
    /\ caller' = u
    /\ UNCHANGED <<meetup, dbMembers, dbActivities, dbResponses, notifications>>
    /\ UNCHANGED <<pageVars, panelVars, cardVars, rows>>
    /\ UNCHANGED notInbox

\* INSERT INTO meetup_members (meetup_id, user_id) VALUES (m, u) as user u:
\* "Authenticated users can join meetups" admits every row of the caller's.
ApiInsertMember(u) ==
  /\ meetup # NoMeetup
  /\ MemberInsertOk(u, u)
  /\ dbMembers' = Append(dbMembers, u)
  /\ caller' = u
  /\ UNCHANGED <<meetup, dbRequests, dbActivities, dbResponses, notifications>>
  /\ UNCHANGED <<pageVars, panelVars, cardVars, rows>>
  /\ UNCHANGED notInbox

\* The pages are used by the creator and by one joiner; every user sends
\* requests of their own to the store.
GateNext ==
  \/ addMeetup
  \/ \E u \in {Me} : fetchMeetupDetails(u)
  \/ \E u \in {Me} : handleJoinMeetup(u)
  \/ \E u \in {Me} : SelectRequest(u)
  \/ \E u \in {Me} : UpdateRequest(u)
  \/ \E u \in {Me} : InsertRequest(u)
  \/ \E u \in {Me} : InsertMember(u)
  \/ \E u \in {Me} : fetchMembers(u)
  \/ fetchRequests
  \/ handleRequest
  \/ ApproveInsert
  \/ ApproveInsertError
  \/ \E u \in Users : ApiUpdateRequest(u)
  \/ \E u \in Users : ApiInsertMember(u)

JoinNext ==
  \/ addMeetup
  \/ \E u \in Joiners : fetchMeetupDetails(u)
  \/ \E u \in Joiners : handleJoinMeetup(u)
  \/ \E u \in Joiners : SelectRequest(u)
  \/ \E u \in Joiners : UpdateRequest(u)
  \/ \E u \in Joiners : InsertRequest(u)
  \/ \E u \in Joiners : InsertMember(u)
  \/ \E u \in Joiners : fetchMembers(u)
  \/ fetchRequests
  \/ handleRequest
  \/ ApproveInsert

-----------------------------------------------------------------------------
(* Claims on the membership gate *)

\* C5: when a user whose join request was rejected calls handleJoinMeetup
\* again, no second request row exists for the user afterwards and the
\* existing row's status is 'pending' again.
C5_ResubmitResetsToPending ==
  [][\A u \in Users :
       (/\ joinPc[u] = "updating" /\ joinPc'[u] = "idle"
        /\ existingRequest[u].status = "rejected") =>
         /\ Cardinality(RequestsOf(dbRequests', u)) = 1
         /\ \A i \in RequestsOf(dbRequests', u) : dbRequests'[i].status = "pending"]_vars

\* C6: a handleJoinMeetup call made while the meetup's member count is not
\* below max_members ends with the capacity error and writes neither a
\* Membership row nor a JoinRequest row.
C6_FullMeetupRejectsJoin ==
  \A u \in Users :
    atCapacity[u] =>
      /\ ~joinWrote[u]
      /\ joinPc[u] = "idle" => joinToast[u] = "Group is full"

\* C16: a join request leaves status 'pending' only by an update made by the
\* creator of its meetup; no other user, the requester included, moves a
\* pending request to approved or rejected.
C16_OnlyCreatorDecides ==
  [][\A i \in DOMAIN dbRequests :
       (dbRequests[i].status = "pending" /\ dbRequests'[i].status # "pending") =>
         dbRequests'[i].by = meetup.creator_id]_vars

\* A request of u1 is pending, u1 and u2 have sent their updates, and the
\* creator has then rejected it.
C16_Witness ==
  /\ Len(dbRequests) = 1
  /\ dbRequests[1].user_id = "u1" /\ dbRequests[1].status = "rejected"
  /\ dbRequests[1].by = Creator
  /\ requestToast = "Request rejected"

\* C17: when handleRequest(approved) finishes, with its success toast or with
\* its error toast, a request it left 'approved' has a Membership row for the
\* same user.
C17_ApprovedImpliesMember ==
  [][(processing # NoProcessing /\ processing' = NoProcessing) =>
       \A i \in DOMAIN dbRequests' :
         (dbRequests'[i].id = processing.id /\ dbRequests'[i].status = "approved") =>
           dbRequests'[i].user_id \in Range(dbMembers')]_vars

\* C18: in a locked meetup a Membership row of a user other than the creator
\* is inserted only when the creator has approved a join request of that
\* user.
C18_LockedNeedsApproval ==
  [][meetup'.type = "locked" =>
       \A u \in Range(dbMembers') \ Range(dbMembers) :
         u # meetup'.creator_id =>
           \E i \in DOMAIN dbRequests :
             /\ dbRequests[i].user_id = u
             /\ dbRequests[i].status = "approved"
             /\ dbRequests[i].by = meetup'.creator_id]_vars

-----------------------------------------------------------------------------
(* Message and activity inserts with their fan-out triggers *)

MaxSent == 1         \* chat messages inserted by members
MaxActivities == 1   \* activities created

\* The table the chat screen of channel c inserts into.
MessageTable(c) == IF c = "meetup" THEN "chat_messages" ELSE "community_messages"

\* The AFTER INSERT triggers of the notifications migration: the table each
\* is attached to and the function it executes.
Triggers ==
  {[name |-> "on_new_meetup_message", table |-> "meetup_chat_messages",
    fn |-> "notify_meetup_message"],
   [name |-> "on_new_meetup_activity", table |-> "meetup_activities",
    fn |-> "notify_meetup_activity"]}

\* A text of n characters; LEFT(text, k).
Left(text, k) == [s |-> text.s, n |-> Min(text.n, k)]

Coalesce(v, default) == IF v = Null THEN default ELSE v

\* The members of the meetup other than uid, in table order.
MembersExcept(uid) == SeqFilter(dbMembers, Range(dbMembers) \ {uid})

\* notify_meetup_message(): one 'message' notification for every member of
\* new.meetup_id except new.user_id.
notify_meetup_message(new) ==
  LET recipients == MembersExcept(new.user_id) IN
  [i \in DOMAIN recipients |->
     [user_id |-> recipients[i],
      type |-> "message",
      title |-> <<"New message in ", meetup.title>>,
      message |-> <<Coalesce(Username(new.user_id), "Someone"), ": ",
                    Left(new.content, 100)>>,
      meetup_id |-> new.meetup_id,
      is_read |-> FALSE]]

\* A fan-out that would not leave out the activity's creator.
notify_meetup_activity_All(new) ==
  [i \in DOMAIN dbMembers |->
     [user_id |-> dbMembers[i],
      type |-> "activity",
      title |-> <<"New activity in ", meetup.title>>,
      message |-> <<Coalesce(Username(new.created_by), "Someone"), " created: ",
                    new.title>>,
      meetup_id |-> new.meetup_id,
      is_read |-> FALSE]]

\* notify_meetup_activity(): one 'activity' notification for every member of
\* new.meetup_id except new.created_by.
notify_meetup_activity(new) ==
  LET recipients == MembersExcept(new.created_by) IN
  [i \in DOMAIN recipients |->
     [user_id |-> recipients[i],
      type |-> "activity",
      title |-> <<"New activity in ", meetup.title>>,
      message |-> <<Coalesce(Username(new.created_by), "Someone"), " created: ",
                    new.title>>,
      meetup_id |-> new.meetup_id,
      is_read |-> FALSE]]

\* The notifications the AFTER INSERT triggers attached to `table` create for
\* the inserted row new.
AfterInsert(table, new) ==
  (IF \E t \in Triggers : t.table = table /\ t.fn = "notify_meetup_message"
     THEN notify_meetup_message(new) ELSE <<>>)
  \o
  (IF \E t \in Triggers : t.table = table /\ t.fn = "notify_meetup_activity"
     THEN notify_meetup_activity(new) ELSE <<>>)

\* Insert policy of the message table of channel c for a row of user uid.
MessageInsertAllowed(c, uid) ==
  IF c = "meetup" THEN uid \in Range(dbMembers) ELSE TRUE

\* Texts a member sends: a short one and one longer than 100 characters.
Contents == {[s |-> "hi", n |-> 2], [s |-> "essay", n |-> 150]}

\* The insert of handleSendMessage / handleFileUpload of user u's chat screen
\* as the store executes it: policy check, row, AFTER INSERT triggers.
InsertChatMessage(u) ==
  \E type \in {"text", "file"}, content \in Contents :
    /\ meetup # NoMeetup /\ Len(rows) < MaxSent
    /\ MessageInsertAllowed(chan, u)
    /\ LET new == [chan |-> chan, meetup_id |-> MeetupId, user_id |-> u,
                   type |-> type, content |-> content, pinned |-> FALSE]
       IN /\ rows' = Append(rows, new)
          /\ notifications' = notifications \o AfterInsert(MessageTable(chan), new)
    /\ UNCHANGED <<meetup, dbMembers, dbRequests, dbActivities, dbResponses>>
    /\ UNCHANGED <<pageVars, panelVars, cardVars>>
    /\ UNCHANGED notMeetup

\* Values of the dialog's activity_time field.
ActivityTimes == {1, 2}

\* CreateActivityDialog: the insert into meetup_activities by member u
\* (policy "Meetup members can create activities") and its trigger.
createActivity(u) ==
  \E time \in ActivityTimes :
    /\ meetup # NoMeetup /\ Len(dbActivities) < MaxActivities
    /\ u \in Range(dbMembers)
    /\ LET new == [id |-> Len(dbActivities) + 1, meetup_id |-> MeetupId,
                   created_by |-> u, title |-> "Hike", activity_time |-> time]
       IN /\ dbActivities' = Append(dbActivities, new)
          /\ notifications' = notifications \o AfterInsert("meetup_activities", new)
    /\ UNCHANGED <<meetup, dbMembers, dbRequests, dbResponses>>
    /\ UNCHANGED <<pageVars, panelVars, cardVars, rows>>
    /\ UNCHANGED notMeetup

\* createActivity with the dialog's time field left at its first value.
createActivityNow(u) ==
  createActivity(u) /\ dbActivities'[Len(dbActivities')].activity_time = 1

\* Members come and go through the open-meetup join path while messages and
\* activities are inserted.
NotifyNext ==
  \/ addMeetup
  \/ \E u \in Joiners : fetchMeetupDetails(u)
  \/ \E u \in Joiners : handleJoinMeetup(u)
  \/ \E u \in Joiners : InsertMember(u)
  \/ \E u \in Joiners : fetchMembers(u)
  \/ \E u \in Users : InsertChatMessage(u)
  \/ \E u \in Users : createActivityNow(u)

-----------------------------------------------------------------------------
(* Claims on the notification fan-out *)

\* The notifications of kind `type` for user u among rows ns.
NotificationsFor(ns, u, type) ==
  {i \in DOMAIN ns : ns[i].user_id = u /\ ns[i].type = type}

\* C3: when a member's chat screen inserts a meetup chat message, the insert
\* creates exactly one 'message' notification for every other user that has
\* a Membership at that time, none for a user without one, and none for the
\* sender.
C3_MessageFanOut ==
  [][(chan = "meetup" /\ Len(rows') = Len(rows) + 1) =>
       LET new == rows'[Len(rows')]
           created == SubSeq(notifications', Len(notifications) + 1,
                             Len(notifications'))
       IN \A u \in Users :
            Cardinality(NotificationsFor(created, u, "message")) =
              IF u # new.user_id /\ u \in Range(dbMembers) THEN 1 ELSE 0]_vars

\* The notifications among rows ns for user u with the given type, title and
\* body.
NotificationsWith(ns, u, type, title, body) ==
  {i \in DOMAIN ns : /\ ns[i].user_id = u /\ ns[i].type = type
                     /\ ns[i].title = title /\ ns[i].message = body}

\* What an activity insert's step created, counted per user, for the body
\* <creator> sep <activity title>.
ActivityFanOut(sep) ==
  Len(dbActivities') = Len(dbActivities) + 1 =>
    LET new == dbActivities'[Len(dbActivities')]
        created == SubSeq(notifications', Len(notifications) + 1,
                          Len(notifications'))
        recipients == Range(dbMembers) \ {new.created_by}
        body == <<Coalesce(Username(new.created_by), "Someone"), sep, new.title>>
    IN /\ Len(created) = Cardinality(recipients)
       /\ \A u \in Users :
            Cardinality(NotificationsWith(created, u, "activity",
              <<"New activity in ", meetup.title>>, body)) =
              IF u \in recipients THEN 1 ELSE 0

\* C22 as stated: inserting an Activity creates exactly one 'activity'
\* notification titled 'New activity in <meetup title>' with body
\* '<creator>: created <activity title>' for every current member other than
\* the activity's creator, and none for the creator.
C22_ActivityFanOutAsStated == [][ActivityFanOut(": created ")]_vars

\* C22, amended: as above with the body '<creator> created: <activity
\* title>', where <creator> is the creator's username, or 'Someone' when the
\* profile has none.
C22_ActivityFanOut == [][ActivityFanOut(" created: ")]_vars

\* The creator has created an activity while u1 was the only other member,
\* and u1 holds its notification.
C22_Witness ==
  /\ Len(dbActivities) = 1 /\ dbActivities[1].created_by = Creator
  /\ Len(notifications) = 1
  /\ notifications[1].user_id = "u1" /\ notifications[1].type = "activity"

-----------------------------------------------------------------------------
(* Table notifications: its row-level policies, the notification sheet's
   handleNotificationClick, and requests sent to the table directly *)

MaxNotifications == 1   \* rows of table notifications

InboxInit ==
  /\ caller = "none"
  /\ selected = [table |-> "none", rows |-> <<>>]

\* "System can insert notifications": FOR INSERT WITH CHECK (true), with no
\* TO clause, so it applies to every role.
NotificationInsertAllowed(uid, row) == TRUE

\* "Users can update own notifications" / "Users can delete own
\* notifications": USING (auth.uid() = user_id).
NotificationOwn(uid, row) == uid = row.user_id

\* UPDATE notifications SET is_read = v WHERE <row i> as user uid: a row the
\* policy hides is left as it is, without an error.
NotificationUpdate(uid, i, v) ==
  IF NotificationOwn(uid, notifications[i])
    THEN [notifications EXCEPT ![i].is_read = v]
    ELSE notifications

\* handleNotificationClick: the sheet lists the user's own notifications;
\* a click marks the row as read.
handleNotificationClick(u) ==
  \E i \in DOMAIN notifications :
    /\ notifications[i].user_id = u
    /\ notifications' = NotificationUpdate(u, i, TRUE)
    /\ caller' = u
    /\ UNCHANGED <<meetup, dbMembers, dbRequests, dbActivities, dbResponses>>
    /\ UNCHANGED <<pageVars, panelVars, cardVars, rows>>
    /\ UNCHANGED notInbox

\* INSERT INTO notifications (user_id, type, ...) sent by user u for any
\* recipient.
ApiInsertNotification(u) ==
  \E recipient \in Users :
    LET row == [user_id |-> recipient, type |-> "message",
                title |-> <<"Hello">>, message |-> <<"Hi">>,
                meetup_id |-> MeetupId, is_read |-> FALSE]
    IN /\ meetup # NoMeetup
       /\ Len(notifications) < MaxNotifications
       /\ NotificationInsertAllowed(u, row)
       /\ notifications' = Append(notifications, row)
       /\ caller' = u
       /\ UNCHANGED <<meetup, dbMembers, dbRequests, dbActivities, dbResponses>>
       /\ UNCHANGED <<pageVars, panelVars, cardVars, rows>>
       /\ UNCHANGED notInbox

\* UPDATE notifications SET is_read = ... sent by user u for any row.
ApiUpdateNotification(u) ==
  \E i \in DOMAIN notifications, v \in BOOLEAN :
    /\ notifications' = NotificationUpdate(u, i, v)
    /\ caller' = u
    /\ UNCHANGED <<meetup, dbMembers, dbRequests, dbActivities, dbResponses>>
    /\ UNCHANGED <<pageVars, panelVars, cardVars, rows>>
    /\ UNCHANGED notInbox

\* DELETE FROM notifications sent by user u for any row.
ApiDeleteNotification(u) ==
  \E i \in DOMAIN notifications :
    /\ notifications' = IF NotificationOwn(u, notifications[i])
                          THEN RemoveAt(notifications, i)
                          ELSE notifications
    /\ caller' = u
    /\ UNCHANGED <<meetup, dbMembers, dbRequests, dbActivities, dbResponses>>
    /\ UNCHANGED <<pageVars, panelVars, cardVars, rows>>
    /\ UNCHANGED notInbox

InboxNext ==
  \/ addMeetup
  \/ \E u \in {Me} : ApiInsertMember(u)
  \/ \E u \in Users : createActivity(u)
  \/ \E u \in Users : handleNotificationClick(u)
  \/ \E u \in Users : ApiInsertNotification(u)
  \/ \E u \in Users : ApiUpdateNotification(u)
  \/ \E u \in Users : ApiDeleteNotification(u)

\* C19: notification rows are added only by the fan-out of a message or
\* activity insert, never by a client's request on the table, and an existing
\* row is updated or deleted only by a request of its recipient.
C19_NotificationsServerWritten ==
  [][/\ Len(notifications') > Len(notifications) =>
          /\ Len(rows') > Len(rows) \/ Len(dbActivities') > Len(dbActivities)
          /\ caller' = caller
      /\ \A i \in DOMAIN notifications :
           \/ (Len(notifications') = Len(notifications)
                 /\ notifications'[i] # notifications[i])
           \/ (Len(notifications') < Len(notifications)
                 /\ notifications' = RemoveAt(notifications, i))
           => caller' = notifications[i].user_id]_vars

-----------------------------------------------------------------------------
(* Message tables: update and delete under their row-level policies *)

\* UPDATE policy of the message table of channel c, applied to the existing
\* row (USING) and to the row as updated (WITH CHECK): chat_messages "Meetup
\* creators can update pinned status", community_messages "Users can update
\* their own messages". Neither names a column.
MessageUpdateAllowed(c, uid, row) ==
  IF c = "meetup" THEN meetup.creator_id = uid ELSE row.user_id = uid

\* DELETE policy of both tables: "Users can delete their own messages".
MessageDeleteAllowed(c, uid, row) == row.user_id = uid

\* The columns of a message row an UPDATE can name, with values for each.
MessageColumns == {"pinned", "content", "user_id"}

ColumnValues(col) ==
  IF col = "pinned" THEN BOOLEAN
  ELSE IF col = "content" THEN Contents
  ELSE Users

\* UPDATE <table> SET col = v WHERE <row i> sent by user u: a row the policy
\* hides is left as it is without an error; a new row the policy's check
\* rejects fails the statement.
ApiUpdateMessage(u) ==
  \E i \in DOMAIN rows, col \in MessageColumns :
    \E v \in ColumnValues(col) :
      LET updated == [rows[i] EXCEPT ![col] = v] IN
      /\ rows' = IF /\ MessageUpdateAllowed(chan, u, rows[i])
                    /\ MessageUpdateAllowed(chan, u, updated)
                   THEN [rows EXCEPT ![i] = updated]
                   ELSE rows
      /\ caller' = u
      /\ UNCHANGED <<storeVars, pageVars, panelVars, cardVars>>
      /\ UNCHANGED notInbox

\* DELETE FROM <table> WHERE <row i> sent by user u.
ApiDeleteMessage(u) ==
  \E i \in DOMAIN rows :
    /\ rows' = IF MessageDeleteAllowed(chan, u, rows[i])
                 THEN RemoveAt(rows, i)
                 ELSE rows
    /\ caller' = u
    /\ UNCHANGED <<storeVars, pageVars, panelVars, cardVars>>
    /\ UNCHANGED notInbox

PinNext ==
  \/ addMeetup
  \/ \E u \in {Me} : ApiInsertMember(u)
  \/ \E u \in Users : InsertChatMessage(u)
  \/ \E u \in Users : ApiUpdateMessage(u)
  \/ \E u \in Users : ApiDeleteMessage(u)

\* C20: an existing meetup chat message changes only as follows: its pin
\* status by a request of the meetup's creator, its content by a request of
\* its author, no other column at all; and it is deleted only by a request
\* of its author.
C20_MessageMutability ==
  [][chan = "meetup" =>
       \A i \in DOMAIN rows :
         /\ Len(rows') = Len(rows) =>
              /\ rows'[i].pinned # rows[i].pinned => caller' = meetup.creator_id
              /\ rows'[i].content # rows[i].content => caller' = rows[i].user_id
              /\ rows'[i].user_id = rows[i].user_id
              /\ rows'[i].type = rows[i].type
              /\ rows'[i].meetup_id = rows[i].meetup_id
         /\ rows' = RemoveAt(rows, i) => caller' = rows[i].user_id]_vars

-----------------------------------------------------------------------------
(* Access to a meetup's messages and activities: the select and insert
   policies of chat_messages and meetup_activities *)

\* A select policy that would show the rows to every signed-in user.
MessageSelectAllowed_Everyone(c, uid) == TRUE

\* "Meetup members can view messages" (chat_messages); "Anyone can view
\* community messages" (community_messages).
MessageSelectAllowed(c, uid) ==
  IF c = "meetup" THEN uid \in Range(dbMembers) ELSE TRUE

\* "Meetup members can insert messages": membership AND user_id = auth.uid();
\* community_messages: user_id = auth.uid().
MessageInsertCheck(c, uid, row) ==
  MessageInsertAllowed(c, uid) /\ row.user_id = uid

\* "Meetup members can view activities".
ActivitySelectAllowed(uid) == uid \in Range(dbMembers)

\* "Meetup members can create activities": membership AND
\* created_by = auth.uid().
ActivityInsertCheck(uid, row) ==
  uid \in Range(dbMembers) /\ row.created_by = uid

\* DELETE FROM meetup_members WHERE user_id = u sent by u ("Users can leave
\* meetups they joined").
ApiDeleteMember(u) ==
  /\ u \in Range(dbMembers)
  /\ dbMembers' = SeqFilter(dbMembers, Range(dbMembers) \ {u})
  /\ caller' = u
  /\ UNCHANGED selected
  /\ UNCHANGED <<meetup, dbRequests, dbActivities, dbResponses, notifications>>
  /\ UNCHANGED <<pageVars, panelVars, cardVars, rows>>
  /\ UNCHANGED notAccess

\* INSERT INTO <message table> sent by user u with any user_id in the row:
\* policy check, row, AFTER INSERT triggers.
ApiInsertMessage(u) ==
  \E author \in Users, content \in Contents :
    LET new == [chan |-> chan, meetup_id |-> MeetupId, user_id |-> author,
                type |-> "text", content |-> content, pinned |-> FALSE]
    IN /\ meetup # NoMeetup /\ Len(rows) < MaxSent
       /\ IF MessageInsertCheck(chan, u, new)
            THEN /\ rows' = Append(rows, new)
                 /\ notifications' =
                      notifications \o AfterInsert(MessageTable(chan), new)
            ELSE UNCHANGED <<rows, notifications>>
       /\ caller' = u
       /\ UNCHANGED selected
       /\ UNCHANGED <<meetup, dbMembers, dbRequests, dbActivities, dbResponses>>
       /\ UNCHANGED <<pageVars, panelVars, cardVars>>
       /\ UNCHANGED notAccess

\* INSERT INTO meetup_activities sent by user u with any created_by.
ApiInsertActivity(u) ==
  \E creator \in Users :
    LET new == [id |-> Len(dbActivities) + 1, meetup_id |-> MeetupId,
                created_by |-> creator, title |-> "Hike", activity_time |-> 1]
    IN /\ meetup # NoMeetup /\ Len(dbActivities) < MaxActivities
       /\ IF ActivityInsertCheck(u, new)
            THEN /\ dbActivities' = Append(dbActivities, new)
                 /\ notifications' =
                      notifications \o AfterInsert("meetup_activities", new)
            ELSE UNCHANGED <<dbActivities, notifications>>
       /\ caller' = u
       /\ UNCHANGED selected
       /\ UNCHANGED <<meetup, dbMembers, dbRequests, dbResponses>>
       /\ UNCHANGED <<pageVars, panelVars, cardVars, rows>>
       /\ UNCHANGED notAccess

\* SELECT * FROM <message table> sent by user u: the rows the policy shows.
ApiSelectMessages(u) ==
  /\ meetup # NoMeetup
  /\ selected' = [table |-> MessageTable(chan),
                  rows |-> IF MessageSelectAllowed(chan, u) THEN rows ELSE <<>>]
  /\ caller' = u
  /\ UNCHANGED <<storeVars, pageVars, panelVars, cardVars, rows>>
  /\ UNCHANGED notAccess

\* SELECT * FROM meetup_activities sent by user u.
ApiSelectActivities(u) ==
  /\ meetup # NoMeetup
  /\ selected' = [table |-> "meetup_activities",
                  rows |-> IF ActivitySelectAllowed(u) THEN dbActivities ELSE <<>>]
  /\ caller' = u
  /\ UNCHANGED <<storeVars, pageVars, panelVars, cardVars, rows>>
  /\ UNCHANGED notAccess

\* One user joins and leaves; every user sends inserts and selects.
AccessNext ==
  \/ addMeetup
  \/ \E u \in {Me} : ApiInsertMember(u)
  \/ \E u \in {Me} : ApiDeleteMember(u)
  \/ \E u \in Users : ApiInsertMessage(u)
  \/ \E u \in Users : ApiInsertActivity(u)
  \/ \E u \in Users : ApiSelectMessages(u)
  \/ \E u \in Users : ApiSelectActivities(u)

\* C21: a request of a user without a Membership in the meetup neither adds
\* a Message or Activity row of the meetup nor returns any; and a Message or
\* Activity row that is added carries the requesting user as its author.
C21_MembersOnlyAccess ==
  [][(chan = "meetup" /\ dbMembers' = dbMembers) =>
       /\ Len(rows') > Len(rows) =>
            /\ caller' \in Range(dbMembers)
            /\ rows'[Len(rows')].user_id = caller'
       /\ Len(dbActivities') > Len(dbActivities) =>
            /\ caller' \in Range(dbMembers)
            /\ dbActivities'[Len(dbActivities')].created_by = caller'
       /\ (selected' # selected /\ selected'.rows # <<>>) =>
            caller' \in Range(dbMembers)]_vars

\* A message is stored, u2 holds no Membership, and u2's select of the
\* messages has returned nothing.
C21_Witness ==
  /\ chan = "meetup" /\ rows # <<>>
  /\ "u2" \notin Range(dbMembers)
  /\ caller = "u2"
  /\ selected = [table |-> "chat_messages", rows |-> <<>>]

-----------------------------------------------------------------------------
(* ActivityCard: the `responses` prop and handleResponse *)

ResponseValues == {"going", "not_going", "maybe"}

Idle == [op |-> "idle", id |-> 0, response |-> "none"]

CardInit ==
  /\ responses = PerUser(<<>>)
  /\ updating = PerUser(FALSE)
  /\ respPc = PerUser(Idle)
  /\ respToast = PerUser("none")

\* The rows of activity_responses of user u for the activity.
ResponsesOf(db, u) == {i \in DOMAIN db : db[i].user_id = u}

\* fetchActivities of member u's chat screen resolved (run on mount and on
\* every change event of meetup_activities / activity_responses): the card
\* is rendered with the responses as read.
fetchActivities(u) ==
  /\ dbActivities # <<>> /\ u \in Range(dbMembers)
  /\ responses[u] # dbResponses
  /\ responses' = [responses EXCEPT ![u] = dbResponses]
  /\ UNCHANGED <<updating, respPc, respToast>>
  /\ UNCHANGED <<storeVars, pageVars, panelVars, rows>>
  /\ UNCHANGED notMeetup

\* handleResponse(response) up to its await: update by id when the card's
\* `responses` holds a response of the user, insert otherwise.
handleResponse(u) ==
  \E response \in ResponseValues :
    /\ dbActivities # <<>> /\ u \in Range(dbMembers)
    /\ ~updating[u]
    /\ updating' = [updating EXCEPT ![u] = TRUE]
    /\ LET mine == ResponsesOf(responses[u], u) IN
       respPc' = [respPc EXCEPT ![u] =
         IF mine # {}
           THEN [op |-> "update",
                 id |-> responses[u][CHOOSE i \in mine : \A j \in mine : i <= j].id,
                 response |-> response]
           ELSE [op |-> "insert", id |-> 0, response |-> response]]
    /\ respToast' = [respToast EXCEPT ![u] = "none"]
    /\ UNCHANGED responses
    /\ UNCHANGED <<storeVars, pageVars, panelVars, rows>>
    /\ UNCHANGED notMeetup

\* UPDATE activity_responses SET response WHERE id (policy: own rows);
\* toast 'Response updated'; finally setUpdating(false).
ResponseUpdate(u) ==
  /\ respPc[u].op = "update"
  /\ dbResponses' = [i \in DOMAIN dbResponses |->
       IF dbResponses[i].id = respPc[u].id /\ dbResponses[i].user_id = u
         THEN [dbResponses[i] EXCEPT !.response = respPc[u].response]
         ELSE dbResponses[i]]
  /\ respToast' = [respToast EXCEPT ![u] = "Response updated"]
  /\ updating' = [updating EXCEPT ![u] = FALSE]
  /\ respPc' = [respPc EXCEPT ![u] = Idle]
  /\ UNCHANGED responses
  /\ UNCHANGED <<meetup, dbMembers, dbRequests, dbActivities, notifications>>
  /\ UNCHANGED <<pageVars, panelVars, rows>>
  /\ UNCHANGED notMeetup

\* INSERT INTO activity_responses (policy: a member's own row); the insert
\* fails on UNIQUE(activity_id, user_id) -> toast 'Unable to update response'.
ResponseInsert(u) ==
  /\ respPc[u].op = "insert"
  /\ IF u \in Range(dbMembers) /\ ResponsesOf(dbResponses, u) = {}
       THEN /\ dbResponses' = Append(dbResponses,
                 [id |-> Len(dbResponses) + 1, activity_id |-> 1, user_id |-> u,
                  response |-> respPc[u].response])
            /\ respToast' = [respToast EXCEPT ![u] = "Response updated"]
       ELSE /\ respToast' = [respToast EXCEPT ![u] = "Unable to update response"]
            /\ UNCHANGED dbResponses
  /\ updating' = [updating EXCEPT ![u] = FALSE]
  /\ respPc' = [respPc EXCEPT ![u] = Idle]
  /\ UNCHANGED responses
  /\ UNCHANGED <<meetup, dbMembers, dbRequests, dbActivities, notifications>>
  /\ UNCHANGED <<pageVars, panelVars, rows>>
  /\ UNCHANGED notMeetup

RespondNext ==
  \/ addMeetup
  \/ \E u \in Users : createActivity(u)
  \/ \E u \in Users : fetchActivities(u)
  \/ \E u \in Users : handleResponse(u)
  \/ \E u \in Users : ResponseUpdate(u)
  \/ \E u \in Users : ResponseInsert(u)

-----------------------------------------------------------------------------
(* Claims on the activity RSVP card *)

\* C4: a handleResponse submission by a user who already has a response row
\* for the activity succeeds and leaves exactly one row for the user, holding
\* the submitted response; no user ever has two rows.
C4_SecondResponseOverwrites ==
  [][\A u \in Users :
       /\ Cardinality(ResponsesOf(dbResponses', u)) <= 1
       /\ (respPc[u] # Idle /\ respPc'[u] = Idle /\ ResponsesOf(dbResponses, u) # {}) =>
            /\ respToast'[u] = "Response updated"
            /\ Cardinality(ResponsesOf(dbResponses', u)) = 1
            /\ \A i \in ResponsesOf(dbResponses', u) :
                 dbResponses'[i].response = respPc[u].response]_vars

-----------------------------------------------------------------------------
(* MeetupChat's activity list: fetchActivities and the activitiesChannel *)

MaxFeedFetches == 2   \* fetchActivities calls in flight at once

NotMounted == [subscribed |-> FALSE, rows |-> <<>>]

Delivered(rs) == [subscribed |-> TRUE, rows |-> rs]

FeedInit ==
  /\ activities = <<>>
  /\ actFetches = <<>>
  /\ delivered = NotMounted

\* Insert row a into the list s, which is ordered by activity_time, behind
\* the rows that are not later than it.
InsertByTime(s, a) ==
  LET before == {i \in DOMAIN s : s[i].activity_time <= a.activity_time}
  IN InsertAfter(s, Cardinality(before), a)

RECURSIVE OrderByTime(_)
OrderByTime(s) ==
  IF s = <<>> THEN <<>>
  ELSE InsertByTime(OrderByTime(SubSeq(s, 1, Len(s) - 1)), s[Len(s)])

\* The select of fetchActivities: the meetup's activities, each with its
\* activity_responses embedded, ordered by activity_time ascending.
ActivitiesQuery ==
  OrderByTime([i \in DOMAIN dbActivities |->
    [id |-> dbActivities[i].id,
     title |-> dbActivities[i].title,
     created_by |-> dbActivities[i].created_by,
     activity_time |-> dbActivities[i].activity_time,
     activity_responses |->
       SeqFilter(dbResponses, {r \in Range(dbResponses) :
                                 r.activity_id = dbActivities[i].id})]])

\* The mount effect: fetchActivities() is called and the activities channel
\* is subscribed.
MountFeed ==
  /\ meetup # NoMeetup /\ delivered = NotMounted
  /\ Creator \in Range(dbMembers)
  /\ actFetches' = <<[st |-> "requested", data |-> <<>>]>>
  /\ delivered' = Delivered(ActivitiesQuery)
  /\ UNCHANGED activities
  /\ UNCHANGED <<storeVars, pageVars, panelVars, cardVars, rows>>
  /\ UNCHANGED notFeed

\* The change event of the last write to meetup_activities or
\* activity_responses arrives: the callback ignores the payload and calls
\* fetchActivities().
ActivityChange ==
  /\ delivered.subscribed /\ delivered.rows # ActivitiesQuery
  /\ Len(actFetches) < MaxFeedFetches
  /\ delivered' = Delivered(ActivitiesQuery)
  /\ actFetches' = Append(actFetches, [st |-> "requested", data |-> <<>>])
  /\ UNCHANGED activities
  /\ UNCHANGED <<storeVars, pageVars, panelVars, cardVars, rows>>
  /\ UNCHANGED notFeed

\* The store answers one of the selects in flight.
ActivitiesServer ==
  \E i \in DOMAIN actFetches :
    /\ actFetches[i].st = "requested"
    /\ actFetches' = [actFetches EXCEPT ![i] =
                        [st |-> "responded", data |-> ActivitiesQuery]]
    /\ UNCHANGED <<activities, delivered>>
    /\ UNCHANGED <<storeVars, pageVars, panelVars, cardVars, rows>>
    /\ UNCHANGED notFeed

\* fetchActivities after its await: setActivities(data || []). Each call
\* awaits its own response; the calls are not ordered among themselves.
ActivitiesResolve ==
  \E i \in DOMAIN actFetches :
    /\ actFetches[i].st = "responded"
    /\ activities' = actFetches[i].data
    /\ actFetches' = RemoveAt(actFetches, i)
    /\ UNCHANGED delivered
    /\ UNCHANGED <<storeVars, pageVars, panelVars, cardVars, rows>>
    /\ UNCHANGED notFeed

\* The event of one write has been delivered before the next write is made.
EventsDelivered == delivered.subscribed => delivered.rows = ActivitiesQuery

FeedCreateActivity == EventsDelivered /\ createActivity(Creator)

FeedResponseInsert == EventsDelivered /\ ResponseInsert(Creator)

FeedResponseUpdate == EventsDelivered /\ ResponseUpdate(Creator)

FeedNext ==
  \/ addMeetup
  \/ FeedCreateActivity
  \/ \E u \in {Creator} : handleResponse(u)
  \/ FeedResponseInsert
  \/ FeedResponseUpdate
  \/ \E u \in {Creator} : fetchActivities(u)
  \/ MountFeed
  \/ ActivityChange
  \/ ActivitiesServer
  \/ ActivitiesResolve

\* C23: once every change event has been delivered and every fetchActivities
\* call has resolved, the local activity list is the store's activities of
\* the meetup with their responses, ordered by activity_time.
C23_ActivityListConverges ==
  (delivered = Delivered(ActivitiesQuery) /\ actFetches = <<>>) =>
    activities = ActivitiesQuery

-----------------------------------------------------------------------------
(* Routing: ProtectedRoute, AuthCallback and the Onboarding page *)

\* The paths App.tsx wraps in <ProtectedRoute>.
ProtectedPaths ==
  {"/onboarding", "/meetups", "/meetups/:meetupId", "/meetups/:meetupId/edit",
   "/create-meetup", "/profile", "/user/:userId"}

NoProfile == [name |-> "none", date_of_birth |-> "none"]

\* Onboarding: const totalSteps = 3
totalSteps == 3

\* !profile?.date_of_birth || !profile?.name is false.
ProfileComplete(row) ==
  row # NoProfile /\ row.date_of_birth # Null /\ row.name # Null

RouteInit ==
  /\ pathname = "/auth"
  /\ profile = NoProfile
  /\ checkingProfile = TRUE
  /\ routePc = "idle"
  /\ currentStep = 0

\* Sign-up: handle_new_user inserts the profiles row from the sign-up
\* metadata, which may lack the name, the date of birth or both; the provider
\* redirects to /auth/callback.
handle_new_user ==
  \E name \in {Null, "Ana"}, dob \in {Null, "2000-01-01"} :
    /\ pathname = "/auth" /\ profile = NoProfile
    /\ profile' = [name |-> name, date_of_birth |-> dob]
    /\ pathname' = "/auth/callback"
    /\ UNCHANGED <<checkingProfile, routePc, currentStep>>
    /\ UNCHANGED notRoute

\* Entering a protected path from a path that is not protected mounts a new
\* ProtectedRoute (checkingProfile starts true); between two protected paths
\* the router re-renders the ProtectedRoute already mounted, state kept. In
\* both cases the effect runs for the new pathname.
EnterProtected(to) ==
  /\ pathname' = to
  /\ checkingProfile' = IF pathname \in ProtectedPaths THEN checkingProfile ELSE TRUE
  /\ routePc' = "start"

\* AuthCallback.checkProfileAndRedirect.
checkProfileAndRedirect ==
  /\ pathname = "/auth/callback"
  /\ IF ~ProfileComplete(profile)
       THEN EnterProtected("/onboarding")
       ELSE pathname' = "/" /\ UNCHANGED <<checkingProfile, routePc>>
  /\ UNCHANGED <<profile, currentStep>>
  /\ UNCHANGED notRoute

\* The user follows a link of the page shown to a protected page.
FollowLink ==
  \E to \in ProtectedPaths \ {"/onboarding"} :
    /\ routePc = "idle"
    /\ \/ pathname = "/"
       \/ pathname \in ProtectedPaths \ {"/onboarding"} /\ ~checkingProfile
    /\ to # pathname
    /\ EnterProtected(to)
    /\ UNCHANGED <<profile, currentStep>>
    /\ UNCHANGED notRoute

\* checkProfileCompletion up to its await: on /onboarding the check is
\* skipped and checkingProfile cleared.
checkProfileCompletion ==
  /\ routePc = "start"
  /\ IF pathname = "/onboarding"
       THEN checkingProfile' = FALSE /\ routePc' = "idle"
       ELSE routePc' = "querying" /\ UNCHANGED checkingProfile
  /\ UNCHANGED <<pathname, profile, currentStep>>
  /\ UNCHANGED notRoute

\* checkProfileCompletion after the select resolved: redirect to /onboarding
\* when the profile is incomplete, else clear checkingProfile.
ProfileResolve ==
  /\ routePc = "querying"
  /\ IF ~ProfileComplete(profile)
       THEN /\ pathname' = "/onboarding"
            /\ routePc' = "start"
            /\ UNCHANGED checkingProfile
       ELSE /\ checkingProfile' = FALSE
            /\ routePc' = "idle"
            /\ UNCHANGED pathname
  /\ UNCHANGED <<profile, currentStep>>
  /\ UNCHANGED notRoute

\* Onboarding.handleSkip: next step, or navigate("/meetups") on the last one.
handleSkip ==
  /\ pathname = "/onboarding" /\ ~checkingProfile /\ routePc = "idle"
  /\ IF currentStep < totalSteps - 1
       THEN /\ currentStep' = currentStep + 1
            /\ UNCHANGED <<pathname, checkingProfile, routePc>>
       ELSE /\ EnterProtected("/meetups")
            /\ UNCHANGED currentStep
  /\ UNCHANGED profile
  /\ UNCHANGED notRoute

\* Onboarding.handleSubmit with a valid form: upsert name and date_of_birth,
\* navigate("/meetups").
handleSubmit ==
  /\ pathname = "/onboarding" /\ ~checkingProfile /\ routePc = "idle"
  /\ currentStep = totalSteps - 1
  /\ profile' = [name |-> "Ana", date_of_birth |-> "2000-01-01"]
  /\ EnterProtected("/meetups")
  /\ UNCHANGED currentStep
  /\ UNCHANGED notRoute

RouteNext ==
  \/ handle_new_user
  \/ checkProfileAndRedirect
  \/ FollowLink
  \/ checkProfileCompletion
  \/ ProfileResolve
  \/ handleSkip
  \/ handleSubmit

\* What ProtectedRoute returns for the signed-in user: the spinner while
\* checkingProfile, else its children.
RendersChildren == pathname \in ProtectedPaths /\ ~checkingProfile

-----------------------------------------------------------------------------
(* The sender's own message on a mounted chat screen *)

\* The texts and the file the sender submits here.
EchoTexts == {<<Run(1)>>, <<MapsUrl>>}

EchoFiles == {[size |-> maxSize, type |-> "image/png", name |-> "photo.png"]}

\* The form is rendered once `loading` is false.
EchoType == ~loading /\ Type /\ newMessage' \in EchoTexts

EchoSubmit == ~loading /\ newMessage # <<>> /\ Submit

EchoStartUpload == ~loading /\ StartUpload /\ upFile' \in EchoFiles

EchoNext ==
  \/ Mount
  \/ FetchServer
  \/ FetchResolve
  \/ SubscribeAck
  \/ HandleEvent
  \/ ReadServer
  \/ ReadResolve
  \/ EchoType
  \/ EchoSubmit
  \/ InsertOk
  \/ InsertError
  \/ EchoStartUpload
  \/ StorageOk
  \/ StorageError
  \/ UploadInsertOk
  \/ UploadInsertError

\* The ids of the rows the sender's own handlers inserted.
OwnIds(rs) == {rs[i].id : i \in DOMAIN rs}

C26_UploadPathsDistinct ==
  upPc = "storing" => upPath \notin StoredPaths

\* C30: once handleFileUpload has finished, every object in storage is
\* referenced by the file_url of a message row.
C30_NoOrphanedUpload ==
  upPc = "idle" =>
    \A o \in storage :
      \E i \in DOMAIN rows :
        /\ "file_url" \in DOMAIN rows[i]
        /\ rows[i].file_url = getPublicUrl(o.path)

\* C28: a row inserted after the screen had loaded and subscribed, and whose
\* row-deleted event the screen has handled, is not in the local list.
C28_DeletedStaysGone ==
  \A x \in gone \cap liveIds : Count(x, messages) = 0

\* C29: with the fetch resolved, the subscription joined, every delivered
\* event handled and every re-read resolved, and no row edited, deleted or
\* announced twice, each row of the channel is in the local list exactly once.
C29_MountLosesNothing ==
  (SyncSettled /\ edits = 0 /\ dupIds = {} /\ drops = 0 /\ rekeys = 0)
    => \A i \in DOMAIN dbMsgs : Count(dbMsgs[i].id, messages) = 1

-----------------------------------------------------------------------------
(* Capacity *)

\* updateMeetup with a new maxMembers: the creator's update of the meetups
\* row; the store checks the creator only.
updateMeetup ==
  \E max \in MaxMembersChoices :
    /\ meetup # NoMeetup /\ meetup.max_members # max
    /\ meetup' = [meetup EXCEPT !.max_members = max]
    /\ UNCHANGED <<dbMembers, dbRequests, dbActivities, dbResponses, notifications>>
    /\ UNCHANGED <<pageVars, panelVars, cardVars, rows>>
    /\ UNCHANGED notMeetup

CapacityNext ==
  \/ addMeetup
  \/ updateMeetup
  \/ \E u \in Joiners : fetchMeetupDetails(u)
  \/ \E u \in Joiners : handleJoinMeetup(u)
  \/ \E u \in Joiners : SelectRequest(u)
  \/ \E u \in Joiners : UpdateRequest(u)
  \/ \E u \in Joiners : InsertRequest(u)
  \/ \E u \in Joiners : InsertMember(u)
  \/ \E u \in Joiners : fetchMembers(u)
  \/ fetchRequests
  \/ handleRequest
  \/ ApproveInsert

\* C27: a meetup never has more Membership rows than its max_members.
C27_MembersWithinCapacity ==
  meetup # NoMeetup => Len(dbMembers) <= meetup.max_members

-----------------------------------------------------------------------------
(* A submit while a send is in flight *)

MaxResubmits == 2   \* submits made while a handleSendMessage call is in flight

ResendInit ==
  /\ second = NoRow
  /\ refused = 0

\* A guard that lets a call through while another one runs.
SendingGuard_None(s) == FALSE

\* `|| sending` of handleSendMessage's first line, on the `sending` of the
\* render the handler belongs to; setSending(true) of a submit event is
\* rendered before the next event is handled.
SendingGuard(s) == s

\* handleSendMessage up to its await (or its return), called while an earlier
\* call awaits its insert.
SubmitAgain ==
  /\ sendPc = "inserting" /\ second = NoRow /\ refused < MaxResubmits
  /\ IF Trim(newMessage) = <<>> \/ SendingGuard(sending)
       THEN \* if (!newMessage.trim() || !user || sending) return;
            /\ refused' = refused + 1
            /\ UNCHANGED second
       ELSE IF ~ValidContent(newMessage)
         THEN /\ refused' = refused + 1
              /\ UNCHANGED second
         ELSE /\ second' = [type |-> MessageType(chan, sanitizeText(newMessage)),
                            content |-> sanitizeText(newMessage)]
              /\ UNCHANGED refused
  /\ UNCHANGED notResend

ResendNext ==
  \/ Type
  \/ Submit
  \/ InsertOk
  \/ InsertError
  \/ SubmitAgain

\* The inserts of handleSendMessage calls that have not been answered.
InFlight ==
  (IF sendPc = "inserting" THEN 1 ELSE 0) + (IF second # NoRow THEN 1 ELSE 0)

\* C25: a chat view has at most one text insert in flight, whatever is
\* submitted while a call runs; no stored row repeats the composition of
\* another one (the input is cleared by the send that stored it); and when no
\* call runs the `sending` flag is false.
C25_OneSendInFlight ==
  /\ [](InFlight <= 1)
  /\ [](sendPc = "idle" => ~sending)
  /\ [][Len(rows') > Len(rows) =>
          /\ Len(rows') = Len(rows) + 1
          /\ newMessage # <<>> /\ newMessage' = <<>>]_vars

\* C25's case: a submit arrived while a call was awaiting its insert and was
\* turned away, and the call then stored its one row.
C25_Witness ==
  /\ refused > 0 /\ sendPc = "idle" /\ sendResult = "sent" /\ Len(rows) = 1

-----------------------------------------------------------------------------
(* Specifications *)

\* Every subsystem starts from the same initial states.
Init ==
  /\ ChanInit /\ SyncInit /\ SendInit /\ UploadInit
  /\ StoreInit /\ PageInit /\ PanelInit /\ CardInit
  /\ InboxInit
  /\ FeedInit
  /\ RouteInit
  /\ ResendInit

SpecSync == Init /\ [][SyncNext]_vars

SpecRekey == Init /\ [][RekeyNext]_vars

SpecReconnect == Init /\ [][ReconnectNext]_vars

SpecSend == Init /\ [][SendNext]_vars

SpecUpload == Init /\ [][UploadNext]_vars

SpecEcho == Init /\ [][EchoNext]_vars

SpecJoin == Init /\ [][JoinNext]_vars

SpecGate == Init /\ [][GateNext]_vars

SpecInbox == Init /\ [][InboxNext]_vars

SpecPin == Init /\ [][PinNext]_vars

SpecAccess == Init /\ [][AccessNext]_vars

SpecFeed == Init /\ [][FeedNext]_vars

SpecRoute == Init /\ [][RouteNext]_vars

SpecCapacity == Init /\ [][CapacityNext]_vars

SpecResend == Init /\ [][ResendNext]_vars

SpecNotify == Init /\ [][NotifyNext]_vars

SpecRespond == Init /\ [][RespondNext]_vars

=============================================================================
